---- MODULE Spec2Model ----
(***************************************************************************)
(* Reactive core of the repository: dependency nodes (Dep), the target     *)
(* stack, property instrumentation (observe / defineReactive), array       *)
(* interception, the Watcher and the update scheduler.                     *)
(*                                                                         *)
(* The whole program state is carried by one record per operator call      *)
(* (parameter s), because the code is re-entrant: a setter notifies, a     *)
(* notification runs watchers, a watcher runs user code that reads and     *)
(* writes again.  The variables of the module are the fields of that       *)
(* record.  Fields whose name starts with g are history fields: they       *)
(* record what the last operation (or the flush in progress) did and are   *)
(* read only by properties.                                                *)
(***************************************************************************)
EXTENDS Integers, Sequences, FiniteSets, TLC

VARIABLES
  heap,      \* object id -> object (own properties, accessors, __ob__)
  subs,      \* Dep id -> Dep.subs
  depUid,    \* dep.js: uid
  ws,        \* watchers by id (watcher.js: uid = Len(ws))
  vm,        \* the owner: vm._watchers (ids), vm._isBeingDestroyed, vm._watcher (id of
             \* the render watcher, 0: none), vm._isMounted, vm.$options (hook handlers)
  stack,     \* dep.js: targetStack
  target,    \* Dep.target (0: none)
  queue,     \* scheduler.js: queue
  has,       \* scheduler.js: has
  circular,  \* scheduler.js: circular
  waiting,   \* scheduler.js: waiting
  flushing,  \* scheduler.js: flushing
  index,     \* scheduler.js: index
  callbacks, \* next-tick.js: callbacks
  pending,   \* next-tick.js: pending
  timers,    \* number of armed timerFunc callbacks (flushCallbacks) not yet fired
  copies,    \* next-tick.js: copies still to call in flushCallbacks
  async,     \* config.async
  inBrowser, \* env.js: inBrowser || inWeex (there is a console to report errors to)
  exc,       \* an exception is propagating up the call stack
  pc,        \* position of the single thread of control
  aborted,   \* the flush loop left by break
  ret,       \* value returned by the last getter / read
  g          \* history of the last operation

vars == <<heap, subs, depUid, ws, vm, stack, target, queue, has, circular, waiting,
          flushing, index, callbacks, pending, timers, copies, async, inBrowser, exc,
          pc, aborted, ret, g>>

(***************************************************************************)
(* Bounds of the model.                                                    *)
(***************************************************************************)
MaxWatchers == 2
MaxWrites == 2
MaxQueue == 210
MaxLen == 3
MaxDeps == 8
MaxPath == 3
MaxOwners == 2

(***************************************************************************)
(* JavaScript values: numbers, NaN, undefined, references to heap objects. *)
(***************************************************************************)
Num(n) == [t |-> "num", v |-> n]
NaN == [t |-> "nan", v |-> 0]
Undef == [t |-> "undef", v |-> 0]
Ref(o) == [t |-> "ref", v |-> o]

\* x === y
StrictEq(x, y) == x.t # "nan" /\ x = y

\* isObject(x)
IsObject(x) == x.t = "ref"

\* ToBoolean(x)
Truthy(x) == x.t = "ref" \/ (x.t = "num" /\ x.v # 0)

\* The root state object vm._data (observed as root data when the owner is initialised).
RootId == 1

Cur ==
  [heap |-> heap, subs |-> subs, depUid |-> depUid, ws |-> ws, vm |-> vm,
   stack |-> stack,
   target |-> target, queue |-> queue, has |-> has, circular |-> circular,
   waiting |-> waiting, flushing |-> flushing, index |-> index,
   callbacks |-> callbacks, pending |-> pending, timers |-> timers, copies |-> copies,
   async |-> async, inBrowser |-> inBrowser, exc |-> exc, pc |-> pc,
   aborted |-> aborted, ret |-> ret, g |-> g]

Commit(s) ==
  /\ heap' = s.heap /\ subs' = s.subs /\ depUid' = s.depUid /\ ws' = s.ws
  /\ vm' = s.vm
  /\ stack' = s.stack /\ target' = s.target /\ queue' = s.queue /\ has' = s.has
  /\ circular' = s.circular /\ waiting' = s.waiting /\ flushing' = s.flushing
  /\ index' = s.index /\ callbacks' = s.callbacks /\ pending' = s.pending
  /\ timers' = s.timers /\ copies' = s.copies /\ async' = s.async
  /\ inBrowser' = s.inBrowser /\ exc' = s.exc /\ pc' = s.pc /\ aborted' = s.aborted
  /\ ret' = s.ret /\ g' = s.g

(***************************************************************************)
(* History helpers.                                                        *)
(***************************************************************************)
\* What the last operation, or the flush in progress, did:
\*   act      the operation; arg: its input and the value it replaced
\*   notes    notify() calls (Dep ids)       updates  update() calls (watcher ids)
\*   queued   watchers queueWatcher pushed   evals    getter invocations
\*   runs     run() calls                    cbs      callbacks <<watcher, value, oldValue>>
\*   warns    warnings                       abort    the watcher whose counter ended the flush
\*   start    the queue as sorted when the flush began
\*   dead     run() calls on an inactive watcher <<watcher, Len(evals), Len(cbs)>>
\*   errs     handleError calls <<watcher (0: none), info>>
\*   reads    computedGetter calls <<watcher, its dirty flag at the call>>
\*   frames   for each get() in progress: the watcher, the Deps whose depend() has
\*            reached it so far, and the number of get() calls finished on entry
\*   gets     get() calls that have finished: the watcher, the Deps read, whether a
\*            get() of the same watcher finished within it, and then its depIds, its
\*            newDepIds and the Deps it is a subscriber of
\*   hooks    callHook calls: the hook, and the scheduler's queue, has, index, waiting
\*            and flushing and the length of queued when it was called
\*   snaps    for each notify() call: the Dep, its subs when the call began, and the
\*            watchers whose update() the call has invoked
\*   ran      the number of positions of the queue the flush has called run() for
\*   asked    the callbacks given to nextTick since flushCallbacks last began
\*   tbatch   the callbacks given to nextTick before flushCallbacks last began and
\*            after the time before; ticked: those of them called so far
\* and of the turn: writes (number of writes since the flush was scheduled), turn (the
\* update() calls of the turn so far); of the flush: batch and bw (turn and writes when
\* the flush began); arg is the last write <<path, value, value before>>, kept
\* through the flush that follows a turn of one write.
Log(act, writes, turn, batch, bw) ==
  [act |-> act, arg |-> <<>>, notes |-> <<>>, updates |-> <<>>, queued |-> <<>>,
   evals |-> <<>>, runs |-> <<>>, cbs |-> <<>>, warns |-> <<>>, start |-> <<>>,
   dead |-> <<>>, errs |-> <<>>, reads |-> <<>>, frames |-> <<>>,
   gets |-> <<>>, hooks |-> <<>>, snaps |-> <<>>, asked |-> <<>>, tbatch |-> <<>>,
   ticked |-> <<>>, ran |-> 0, abort |-> 0, writes |-> writes, turn |-> turn, batch |-> batch, bw |-> bw]

\* The log when an operation of the environment begins.
OpLog(s, act, arg) ==
  [Log(act, IF s.waiting THEN s.g.writes + 1 ELSE 1, IF s.waiting THEN s.g.turn ELSE <<>>,
       <<>>, 0)
   EXCEPT !.arg = arg, !.asked = s.g.asked, !.ran = IF s.flushing THEN s.g.ran ELSE 0]

Count(seq, x) == Cardinality({i \in DOMAIN seq : seq[i] = x})

Range(seq) == {seq[i] : i \in DOMAIN seq}

Last(seq) == seq[Len(seq)]

\* Array.prototype.splice(at, 0, x): insert x so that it becomes element at+1 (1-based).
InsertAt(seq, at, x) == SubSeq(seq, 1, at) \o <<x>> \o SubSeq(seq, at + 1, Len(seq))

\* shared/util remove(arr, item): drop the first occurrence of item.
Remove(seq, x) ==
  IF x \notin Range(seq) THEN seq
  ELSE LET i == CHOOSE j \in DOMAIN seq :
                  /\ seq[j] = x
                  /\ \A k \in 1..(j - 1) : seq[k] # x
       IN SubSeq(seq, 1, i - 1) \o SubSeq(seq, i + 1, Len(seq))

\* Array.prototype.sort((a, b) => a.id - b.id) on a list of watcher ids (stable).
RECURSIVE SortIds(_)
SortIds(seq) ==
  IF Len(seq) <= 1 THEN seq
  ELSE LET m == CHOOSE i \in DOMAIN seq :
                  /\ \A j \in DOMAIN seq : seq[i] <= seq[j]
                  /\ \A j \in 1..(i - 1) : seq[j] # seq[i]
       IN <<seq[m]>> \o SortIds(SubSeq(seq, 1, m - 1) \o SubSeq(seq, m + 1, Len(seq)))

(***************************************************************************)
(* dep.js                                                                  *)
(***************************************************************************)
\* new Dep(): id = uid++, subs = []
NewDep(s) == [s EXCEPT !.subs = s.subs @@ (s.depUid :> <<>>), !.depUid = s.depUid + 1]

\* Dep.prototype.addSub
AddSub(s, d, w) == [s EXCEPT !.subs[d] = Append(s.subs[d], w)]

\* Dep.prototype.removeSub
RemoveSub(s, d, w) == [s EXCEPT !.subs[d] = Remove(s.subs[d], w)]

\* pushTarget(target)
PushTarget(s, w) == [s EXCEPT !.stack = Append(s.stack, w), !.target = w]

\* popTarget() that leaves Dep.target as it is
PopTargetKeep(s) == [s EXCEPT !.stack = SubSeq(s.stack, 1, Len(s.stack) - 1)]

\* popTarget()
PopTarget(s) ==
  LET st == SubSeq(s.stack, 1, Len(s.stack) - 1)
  IN [s EXCEPT !.stack = st, !.target = IF Len(st) = 0 THEN 0 ELSE Last(st)]

(***************************************************************************)
(* util/error.js                                                           *)
(***************************************************************************)
\* handleError(err, vm, info) for an owner without $parent and without
\* config.errorHandler: globalHandleError calls logError, which warns and then
\* reports to the console when there is one, and throws err when there is none.
HandleError(s, w, info) ==
  PopTarget([PushTarget(s, 0) EXCEPT !.g.errs = Append(@, <<w, info>>),
                                     !.g.warns = Append(@, "Error in " \o info),
                                     !.exc = ~s.inBrowser])

\* An exception that reaches the event loop is reported by the host.
Return(s) ==
  IF s.exc THEN [s EXCEPT !.exc = FALSE, !.g.warns = Append(@, "Uncaught")] ELSE s

(***************************************************************************)
(* watcher.js: dependency collection                                       *)
(***************************************************************************)
\* addDep without the test of depIds
AddDepNoPrev(s, w, d) ==
  IF d \in s.ws[w].newDepIds THEN s
  ELSE AddSub([s EXCEPT !.ws[w].newDepIds = @ \cup {d}, !.ws[w].newDeps = Append(@, d)],
              d, w)

\* Watcher.prototype.addDep
AddDep(s, w, d) ==
  IF d \in s.ws[w].newDepIds THEN s
  ELSE LET s1 == [s EXCEPT !.ws[w].newDepIds = @ \cup {d},
                           !.ws[w].newDeps = Append(@, d)]
       IN IF d \in s.ws[w].depIds THEN s1 ELSE AddSub(s1, d, w)

\* The log of a call of depend() that reaches the watcher whose get() is in progress.
DependLog(s, d) ==
  IF s.g.frames = <<>> THEN s.g
  ELSE [s.g EXCEPT !.frames[Len(s.g.frames)].reads = @ \cup {d}]

\* Dep.prototype.depend
DepDepend(s, d) ==
  IF s.target # 0 THEN AddDep([s EXCEPT !.g = DependLog(s, d)], s.target, d) ELSE s

\* The while (i--) loop of cleanupDeps over this.deps.
RECURSIVE CleanupLoop(_, _, _)
CleanupLoop(s, w, i) ==
  IF i = 0 THEN s
  ELSE LET d == s.ws[w].deps[i]
       IN CleanupLoop(IF d \notin s.ws[w].newDepIds THEN RemoveSub(s, d, w) ELSE s, w, i - 1)

\* cleanupDeps that keeps the subscriptions of the previous evaluation
CleanupDepsKeepSubs(s, w) ==
  [s EXCEPT !.ws[w].depIds = s.ws[w].newDepIds,
            !.ws[w].newDepIds = {},
            !.ws[w].deps = s.ws[w].newDeps,
            !.ws[w].newDeps = <<>>]

\* Watcher.prototype.cleanupDeps
CleanupDeps(s, w) ==
  LET s1 == CleanupLoop(s, w, Len(s.ws[w].deps))
  IN [s1 EXCEPT !.ws[w].depIds = s1.ws[w].newDepIds,
                !.ws[w].newDepIds = {},
                !.ws[w].deps = s1.ws[w].newDeps,
                !.ws[w].newDeps = <<>>]

(***************************************************************************)
(* Heap objects.  A plain object literal {k1: v1, ...} or array [v1, ...]  *)
(* before it enters the reactive surface.                                  *)
(***************************************************************************)
PlainObj(keys, vals) ==
  [kind |-> "obj", ob |-> FALSE, obDep |-> -1, vmCount |-> 0, ext |-> TRUE,
   isVue |-> FALSE,
   keys |-> keys,
   val |-> [k \in Range(keys) |-> vals[k]],
   pdep |-> [k \in Range(keys) |-> -1],
   child |-> [k \in Range(keys) |-> 0],
   acc |-> [k \in Range(keys) |-> "data"],
   items |-> <<>>]

PlainArr(items) ==
  [kind |-> "arr", ob |-> FALSE, obDep |-> -1, vmCount |-> 0, ext |-> TRUE,
   isVue |-> FALSE,
   keys |-> <<>>, val |-> <<>>, pdep |-> <<>>, child |-> <<>>, acc |-> <<>>,
   items |-> items]

\* value.__ob__ of a value, as the id of the object that carries it (0: none)
ObOf(s, v) == IF IsObject(v) /\ s.heap[v.v].ob THEN v.v ELSE 0

(***************************************************************************)
(* observer/index.js                                                       *)
(* An operator that needs the state reached by a call it makes hands that  *)
(* state to a second operator (named ...Then), which is the rest of the    *)
(* function body.                                                          *)
(***************************************************************************)
RECURSIVE Observe(_, _, _)
RECURSIVE NewObserver(_, _)
RECURSIVE DefineReactive(_, _, _, _, _, _)
RECURSIVE Walk(_, _, _)
RECURSIVE ObserveArray(_, _, _)
RECURSIVE Notify(_, _)
RECURSIVE NotifyLoop(_, _, _, _)
RECURSIVE Update(_, _)
RECURSIVE Run(_, _)
RECURSIVE Get(_, _)
RECURSIVE Exec(_, _, _)
RECURSIVE QueueWatcher(_, _)
RECURSIVE FlushLoop(_)
RECURSIVE Traverse(_, _, _)

\* observe: the end of the function, if (asRootData && ob) ob.vmCount++
ObserveThen(s, o, asRoot) ==
  IF asRoot /\ s.heap[o].ob THEN [s EXCEPT !.heap[o].vmCount = @ + 1] ELSE s

\* observe that gives a value that has a container a new one
ObserveFresh(s, v, asRoot) ==
  IF ~IsObject(v) THEN s
  ELSE ObserveThen(IF s.heap[v.v].ob
                   THEN [NewDep(s) EXCEPT !.heap[v.v].obDep = s.depUid,
                                          !.heap[v.v].vmCount = 0]
                   ELSE IF s.heap[v.v].ext /\ ~s.heap[v.v].isVue THEN NewObserver(s, v.v)
                   ELSE s,
                   v.v, asRoot)

\* observe(value, asRootData).  shouldObserve is true, the values are no VNodes and
\* rendering is not on the server.
Observe(s, v, asRoot) ==
  IF ~IsObject(v) THEN s
  ELSE ObserveThen(IF s.heap[v.v].ob THEN s
                   ELSE IF s.heap[v.v].ext /\ ~s.heap[v.v].isVue THEN NewObserver(s, v.v)
                   ELSE s,
                   v.v, asRoot)

\* observeArray that visits no item
ObserveArrayNone(s, items, i) == s

\* Observer.prototype.observeArray
ObserveArray(s, items, i) ==
  IF i > Len(items) THEN s
  ELSE ObserveArray(Observe(s, items[i], FALSE), items, i + 1)

\* Observer.prototype.walk
Walk(s, o, i) ==
  IF i > Len(s.heap[o].keys) THEN s
  ELSE Walk(DefineReactive(s, o, s.heap[o].keys[i], FALSE, Undef, FALSE), o, i + 1)

\* new Observer(value): after def(value, '__ob__', this), visit the children
NewObserverThen(s, o) ==
  IF s.heap[o].kind = "arr" THEN ObserveArray(s, s.heap[o].items, 1) ELSE Walk(s, o, 1)

\* new Observer(value): the marker __ob__ is set before the children are visited.
NewObserver(s, o) ==
  NewObserverThen([NewDep(s) EXCEPT !.heap[o].ob = TRUE, !.heap[o].obDep = s.depUid,
                                    !.heap[o].vmCount = 0], o)

\* defineReactive: Object.defineProperty(obj, key, {get: reactiveGetter, set: reactiveSetter})
\* closing over dep d, val and childOb = observe(val)
DefineReactiveThen(s, o, k, d, val, shallow) ==
  LET h == s.heap[o]
      exists == k \in DOMAIN h.val
      getter == exists /\ h.acc[k] \in {"get", "getset"}
  IN [s EXCEPT !.heap[o] =
        [h EXCEPT !.keys = IF exists THEN @ ELSE Append(@, k),
                  !.val = IF getter THEN @ ELSE (k :> val) @@ @,
                  !.pdep = (k :> d) @@ @,
                  !.child = (k :> (IF shallow THEN 0 ELSE ObOf(s, val))) @@ @,
                  !.acc = IF exists THEN @ ELSE (k :> "data") @@ @]]

\* The value defineReactive closes over: the argument, or obj[key] unless the property
\* has a getter and no setter.
ClosureVal(h, k, hasVal, v) ==
  IF hasVal THEN v
  ELSE IF k \notin DOMAIN h.val THEN Undef
  ELSE IF h.acc[k] = "get" THEN Undef
  ELSE h.val[k]

\* defineReactive(obj, key, val, customSetter, shallow); hasVal is arguments.length > 2.
\* Every modelled property is configurable.
DefineReactive(s, o, k, hasVal, v, shallow) ==
  DefineReactiveThen(IF shallow THEN NewDep(s)
                     ELSE Observe(NewDep(s), ClosureVal(s.heap[o], k, hasVal, v), FALSE),
                     o, k, s.depUid, ClosureVal(s.heap[o], k, hasVal, v), shallow)

\* dependArray: if (Array.isArray(e)) dependArray(e)
RECURSIVE DependArray(_, _, _)
DependArrayThen(s, e) ==
  IF IsObject(e) /\ s.heap[e.v].kind = "arr"
  THEN DependArray(s, s.heap[e.v].items, 1)
  ELSE s

\* dependArray(value)
DependArray(s, items, i) ==
  IF i > Len(items) THEN s
  ELSE DependArray(
         DependArrayThen(IF ObOf(s, items[i]) # 0
                         THEN DepDepend(s, s.heap[items[i].v].obDep)
                         ELSE s,
                         items[i]),
         items, i + 1)

\* reactiveGetter: if (childOb) { childOb.dep.depend(); if (Array.isArray(value)) ... }
ReactiveGetterThen(s, o, k) ==
  LET h == s.heap[o]
      value == h.val[k]
  IN IF h.child[k] = 0 THEN s
     ELSE DependArrayThen(DepDepend(s, s.heap[h.child[k]].obDep), value)

\* reactiveGetter: the value goes to s.ret.  A pre-defined accessor reads its backing
\* slot, kept in val like the closure variable of a data property.
ReactiveGetter(s, o, k) ==
  [(IF s.target = 0 THEN s
    ELSE ReactiveGetterThen(DepDepend(s, s.heap[o].pdep[k]), o, k))
   EXCEPT !.ret = s.heap[o].val[k]]

\* obj[key]: through reactiveGetter when the property is instrumented.
ReadProp(s, o, k) ==
  LET h == s.heap[o]
  IN IF k \notin DOMAIN h.val THEN [s EXCEPT !.ret = Undef]
     ELSE IF h.pdep[k] < 0 THEN [s EXCEPT !.ret = h.val[k]]
     ELSE ReactiveGetter(s, o, k)

\* The test without its second half (newVal !== newVal && value !== value)
SameValueStrict(newVal, value) == StrictEq(newVal, value)

\* The test of reactiveSetter that ends the call without a change.
SameValue(newVal, value) ==
  StrictEq(newVal, value) \/ (~StrictEq(newVal, newVal) /\ ~StrictEq(value, value))

\* reactiveSetter: childOb = !shallow && observe(newVal); dep.notify()
ReactiveSetterThen(s, o, k, newVal) ==
  Notify([s EXCEPT !.heap[o].child[k] = ObOf(s, newVal)], s.heap[o].pdep[k])

\* reactiveSetter without the test `if (getter && !setter) return`
ReactiveSetterNoGuard(s, o, k, newVal) ==
  IF SameValue(newVal, s.heap[o].val[k]) THEN s
  ELSE ReactiveSetterThen(Observe([s EXCEPT !.heap[o].val[k] = newVal], newVal, FALSE),
                          o, k, newVal)

\* reactiveSetter (no customSetter is installed on the modelled properties)
ReactiveSetter(s, o, k, newVal) ==
  IF SameValue(newVal, s.heap[o].val[k]) THEN s
  ELSE IF s.heap[o].acc[k] = "get" THEN s
  ELSE ReactiveSetterThen(Observe([s EXCEPT !.heap[o].val[k] = newVal], newVal, FALSE),
                          o, k, newVal)

\* obj[key] = v: through reactiveSetter when the property is instrumented.
AssignProp(s, o, k, v) ==
  LET h == s.heap[o]
  IN IF k \in DOMAIN h.val /\ h.pdep[k] >= 0 THEN ReactiveSetter(s, o, k, v)
     ELSE IF k \in DOMAIN h.val
     THEN (IF h.acc[k] = "get" THEN s ELSE [s EXCEPT !.heap[o].val[k] = v])
     ELSE [s EXCEPT !.heap[o].keys = Append(@, k),
                    !.heap[o].val = (k :> v) @@ @,
                    !.heap[o].pdep = (k :> -1) @@ @,
                    !.heap[o].child = (k :> 0) @@ @,
                    !.heap[o].acc = (k :> "data") @@ @]

\* Dep.prototype.notify with a loop over this.subs in place of the copy
NotifyLoopLive(s, snap, i, n) ==
  IF i > Len(s.subs[s.g.snaps[n].dep]) \/ s.exc THEN s
  ELSE NotifyLoop(Update([s EXCEPT !.g.snaps[n].calls =
                                     Append(@, s.subs[s.g.snaps[n].dep][i])],
                         s.subs[s.g.snaps[n].dep][i]),
                  snap, i + 1, n)

\* Dep.prototype.notify: the loop over the copy of subs; n is the position of this
\* notify() in the history
NotifyLoop(s, snap, i, n) ==
  IF i > Len(snap) \/ s.exc THEN s
  ELSE NotifyLoop(Update([s EXCEPT !.g.snaps[n].calls = Append(@, snap[i])], snap[i]),
                  snap, i + 1, n)

\* Dep.prototype.notify
Notify(s, d) ==
  NotifyLoop([s EXCEPT !.g.notes = Append(@, d),
                       !.g.snaps = Append(@, [dep |-> d, subs |-> s.subs[d],
                                              calls |-> <<>>])],
             IF ~s.async THEN SortIds(s.subs[d]) ELSE s.subs[d], 1,
             Len(s.g.snaps) + 1)

(***************************************************************************)
(* observer/array.js.  A call is [m, start, del, args]: the method, the    *)
(* first two arguments of splice, and the elements given.                  *)
(***************************************************************************)
Call(m, start, del, args) == [m |-> m, start |-> start, del |-> del, args |-> args]

\* A fresh array that a built-in returns (held by nobody else)
List(items) == [t |-> "list", v |-> items]

Min(a, b) == IF a < b THEN a ELSE b

Reverse(seq) == [i \in 1..Len(seq) |-> seq[Len(seq) + 1 - i]]

\* The default order of Array.prototype.sort on the modelled values: by string, so
\* single digits before objects ("[object Object]").
SortKey(v) == IF v.t = "num" THEN v.v ELSE 200

\* x put after the elements of a sorted list that do not follow it
RECURSIVE InsertSorted(_, _)
InsertSorted(x, seq) ==
  IF seq = <<>> THEN <<x>>
  ELSE IF SortKey(seq[1]) <= SortKey(x) THEN <<seq[1]>> \o InsertSorted(x, Tail(seq))
  ELSE <<x>> \o seq

RECURSIVE SortItems(_, _)
SortItems(seq, i) ==
  IF i = 0 THEN <<>> ELSE InsertSorted(seq[i], SortItems(seq, i - 1))

\* original.apply(this, args) on array o: the built-in method, as [items, result]
ArrayOriginal(o, items, c) ==
  LET len == Len(items)
      st == Min(c.start, len)
      dc == Min(c.del, len - st)
  IN CASE c.m = "push" ->
            [items |-> items \o c.args, result |-> Num(len + Len(c.args))]
       [] c.m = "pop" ->
            IF len = 0 THEN [items |-> items, result |-> Undef]
            ELSE [items |-> SubSeq(items, 1, len - 1), result |-> items[len]]
       [] c.m = "shift" ->
            IF len = 0 THEN [items |-> items, result |-> Undef]
            ELSE [items |-> Tail(items), result |-> items[1]]
       [] c.m = "unshift" ->
            [items |-> c.args \o items, result |-> Num(len + Len(c.args))]
       [] c.m = "splice" ->
            [items |-> SubSeq(items, 1, st) \o c.args \o SubSeq(items, st + dc + 1, len),
             result |-> List(SubSeq(items, st + 1, st + dc))]
       [] c.m = "sort" -> [items |-> SortItems(items, len), result |-> Ref(o)]
       [] c.m = "reverse" -> [items |-> Reverse(items), result |-> Ref(o)]

\* A patched method that does not observe what it inserts
MutatorNoObserve(s, o, c) ==
  [Notify([s EXCEPT !.heap[o].items = ArrayOriginal(o, s.heap[o].items, c).items],
          s.heap[o].obDep)
   EXCEPT !.ret = ArrayOriginal(o, s.heap[o].items, c).result]

\* function mutator (...args)
Mutator(s, o, c) ==
  [Notify(IF c.m \in {"push", "unshift", "splice"}
          THEN ObserveArray([s EXCEPT !.heap[o].items =
                                         ArrayOriginal(o, s.heap[o].items, c).items],
                            c.args, 1)
          ELSE [s EXCEPT !.heap[o].items = ArrayOriginal(o, s.heap[o].items, c).items],
          s.heap[o].obDep)
   EXCEPT !.ret = ArrayOriginal(o, s.heap[o].items, c).result]

(***************************************************************************)
(* observer/index.js: set and del.  A key is an array index or a name.     *)
(***************************************************************************)
IdxKey(i) == [idx |-> TRUE, i |-> i, k |-> ""]
StrKey(k) == [idx |-> FALSE, i |-> 0, k |-> k]

\* target.length = Math.max(target.length, key): the new slots are empty (read undefined)
Pad(items, n) ==
  IF Len(items) >= n THEN items ELSE items \o [j \in 1..(n - Len(items)) |-> Undef]

\* target.splice(...): the patched method on an observed array, the built-in otherwise
Splice(s, o, c) ==
  IF s.heap[o].ob THEN Mutator(s, o, c)
  ELSE [s EXCEPT !.heap[o].items = ArrayOriginal(o, s.heap[o].items, c).items,
                 !.ret = ArrayOriginal(o, s.heap[o].items, c).result]

\* The test that forgets the root data of an instance: target._isVue alone
RootedOwnerOnly(h) == h.isVue

\* target._isVue || (ob && ob.vmCount)
Rooted(h) == h.isVue \/ (h.ob /\ h.vmCount > 0)

\* set(target, key, val) that defines the new property without notifying
SetOpNoNotify(s, o, key, val) ==
  IF s.heap[o].kind = "arr" /\ key.idx
  THEN [Splice([s EXCEPT !.heap[o].items = Pad(@, key.i)], o,
               Call("splice", key.i, 1, <<val>>))
        EXCEPT !.ret = val]
  ELSE IF key.k \in DOMAIN s.heap[o].val
  THEN [AssignProp(s, o, key.k, val) EXCEPT !.ret = val]
  ELSE IF Rooted(s.heap[o])
  THEN [s EXCEPT !.g.warns = Append(@, "Avoid adding reactive properties"), !.ret = val]
  ELSE IF ~s.heap[o].ob
  THEN [AssignProp(s, o, key.k, val) EXCEPT !.ret = val]
  ELSE [DefineReactive(s, o, key.k, TRUE, val, FALSE) EXCEPT !.ret = val]

\* set(target, key, val) that warns on a rooted target and assigns the key all the same
SetOpBestEffort(s, o, key, val) ==
  IF s.heap[o].kind = "arr" /\ key.idx
  THEN [Splice([s EXCEPT !.heap[o].items = Pad(@, key.i)], o,
               Call("splice", key.i, 1, <<val>>))
        EXCEPT !.ret = val]
  ELSE IF key.k \in DOMAIN s.heap[o].val
  THEN [AssignProp(s, o, key.k, val) EXCEPT !.ret = val]
  ELSE IF Rooted(s.heap[o])
  THEN [AssignProp([s EXCEPT !.g.warns = Append(@, "Avoid adding reactive properties")],
                   o, key.k, val)
        EXCEPT !.ret = val]
  ELSE IF ~s.heap[o].ob
  THEN [AssignProp(s, o, key.k, val) EXCEPT !.ret = val]
  ELSE [Notify(DefineReactive(s, o, key.k, TRUE, val, FALSE), s.heap[o].obDep)
        EXCEPT !.ret = val]

\* set(target, key, val); the target is an object or an array
SetOp(s, o, key, val) ==
  IF s.heap[o].kind = "arr" /\ key.idx
  THEN [Splice([s EXCEPT !.heap[o].items = Pad(@, key.i)], o,
               Call("splice", key.i, 1, <<val>>))
        EXCEPT !.ret = val]
  ELSE IF key.k \in DOMAIN s.heap[o].val
  THEN [AssignProp(s, o, key.k, val) EXCEPT !.ret = val]
  ELSE IF Rooted(s.heap[o])
  THEN [s EXCEPT !.g.warns = Append(@, "Avoid adding reactive properties"), !.ret = val]
  ELSE IF ~s.heap[o].ob
  THEN [AssignProp(s, o, key.k, val) EXCEPT !.ret = val]
  ELSE [Notify(DefineReactive(s, o, key.k, TRUE, val, FALSE), s.heap[o].obDep)
        EXCEPT !.ret = val]

\* A function without the argument k
Without(f, k) == [x \in DOMAIN f \ {k} |-> f[x]]

\* delete target[key]
DeleteProp(h, k) ==
  [h EXCEPT !.keys = Remove(@, k), !.val = Without(@, k), !.pdep = Without(@, k),
            !.child = Without(@, k), !.acc = Without(@, k)]

\* del(target, key) that notifies before it tests hasOwn(target, key)
DelOpAlways(s, o, key) ==
  IF s.heap[o].kind = "arr" /\ key.idx
  THEN [Splice(s, o, Call("splice", key.i, 1, <<>>)) EXCEPT !.ret = Undef]
  ELSE IF Rooted(s.heap[o])
  THEN [s EXCEPT !.g.warns = Append(@, "Avoid deleting properties"), !.ret = Undef]
  ELSE IF ~s.heap[o].ob
  THEN [s EXCEPT !.heap[o] = IF key.k \in DOMAIN @.val THEN DeleteProp(@, key.k) ELSE @,
                 !.ret = Undef]
  ELSE [Notify([s EXCEPT !.heap[o] =
                           IF key.k \in DOMAIN @.val THEN DeleteProp(@, key.k) ELSE @],
               s.heap[o].obDep)
        EXCEPT !.ret = Undef]

\* del(target, key); the target is an object or an array
DelOp(s, o, key) ==
  IF s.heap[o].kind = "arr" /\ key.idx
  THEN [Splice(s, o, Call("splice", key.i, 1, <<>>)) EXCEPT !.ret = Undef]
  ELSE IF Rooted(s.heap[o])
  THEN [s EXCEPT !.g.warns = Append(@, "Avoid deleting properties"), !.ret = Undef]
  ELSE IF key.k \notin DOMAIN s.heap[o].val
  THEN [s EXCEPT !.ret = Undef]
  ELSE IF ~s.heap[o].ob
  THEN [s EXCEPT !.heap[o] = DeleteProp(@, key.k), !.ret = Undef]
  ELSE [Notify([s EXCEPT !.heap[o] = DeleteProp(@, key.k)], s.heap[o].obDep)
        EXCEPT !.ret = Undef]

(***************************************************************************)
(* watcher.js: teardown; lifecycle.js: $destroy                            *)
(***************************************************************************)
\* The loop of teardown: this.deps[i].removeSub(this), from the last dep to the first
RECURSIVE TeardownLoop(_, _, _)
TeardownLoop(s, w, i) ==
  IF i = 0 THEN s ELSE TeardownLoop(RemoveSub(s, s.ws[w].deps[i], w), w, i - 1)

\* teardown whose loop stops before the first dep
TeardownSkipFirst(s, w) ==
  IF ~s.ws[w].active THEN s
  ELSE [TeardownLoop(IF s.vm.isBeingDestroyed THEN s
                     ELSE [s EXCEPT !.vm.watchers = Remove(@, w)],
                     w, Len(s.ws[w].deps))
        EXCEPT !.ws[w].active = FALSE,
               !.subs = IF s.ws[w].deps = <<>> THEN @ ELSE
                          [@ EXCEPT ![s.ws[w].deps[1]] = s.subs[s.ws[w].deps[1]]]]

\* Watcher.prototype.teardown
Teardown(s, w) ==
  IF ~s.ws[w].active THEN s
  ELSE [TeardownLoop(IF s.vm.isBeingDestroyed THEN s
                     ELSE [s EXCEPT !.vm.watchers = Remove(@, w)],
                     w, Len(s.ws[w].deps))
        EXCEPT !.ws[w].active = FALSE]

\* The loop of $destroy: vm._watchers[i].teardown(), from the last watcher to the first
RECURSIVE DestroyLoop(_, _)
DestroyLoop(s, i) ==
  IF i = 0 THEN s ELSE DestroyLoop(Teardown(s, s.vm.watchers[i]), i - 1)

\* $destroy: vm._data.__ob__.vmCount--
DestroyThen(s) ==
  IF s.heap[RootId].ob THEN [s EXCEPT !.heap[RootId].vmCount = @ - 1] ELSE s

\* Vue.prototype.$destroy of an owner without parent, render watcher and element
DestroyOp(s) ==
  IF s.vm.isBeingDestroyed THEN s
  ELSE DestroyThen(DestroyLoop([s EXCEPT !.vm.isBeingDestroyed = TRUE],
                               Len(s.vm.watchers)))

(***************************************************************************)
(* watcher.js: evaluate, depend; state.js: createComputedGetter            *)
(***************************************************************************)
\* Watcher.prototype.evaluate: the assignments after this.get() has returned
EvaluateThen(s, w) ==
  IF s.exc THEN s ELSE [s EXCEPT !.ws[w].value = s.ret, !.ws[w].dirty = FALSE]

\* Watcher.prototype.evaluate
Evaluate(s, w) == EvaluateThen(Get(s, w), w)

\* The loop of depend: this.deps[i].depend(), from the last dep to the first
RECURSIVE DependLoop(_, _, _)
DependLoop(s, w, i) ==
  IF i = 0 THEN s ELSE DependLoop(DepDepend(s, s.ws[w].deps[i]), w, i - 1)

\* depend that stops after the last dep
WatcherDependLastOnly(s, w) ==
  IF s.ws[w].deps = <<>> THEN s ELSE DepDepend(s, Last(s.ws[w].deps))

\* Watcher.prototype.depend
WatcherDepend(s, w) == DependLoop(s, w, Len(s.ws[w].deps))

\* computedGetter: if (Dep.target) watcher.depend(); return watcher.value
ComputedGetterThen(s, w) ==
  IF s.exc THEN s
  ELSE [(IF s.target # 0 THEN WatcherDepend(s, w) ELSE s) EXCEPT !.ret = s.ws[w].value]

\* computedGetter that evaluates the watcher on every read
ComputedGetterAlways(s, w) ==
  ComputedGetterThen(Evaluate([s EXCEPT !.g.reads = Append(@, <<w, s.ws[w].dirty>>)], w),
                     w)

\* computedGetter of the computed property whose watcher is w
ComputedGetter(s, w) ==
  ComputedGetterThen(IF s.ws[w].dirty
                     THEN Evaluate([s EXCEPT !.g.reads = Append(@, <<w, TRUE>>)], w)
                     ELSE [s EXCEPT !.g.reads = Append(@, <<w, FALSE>>)],
                     w)

(***************************************************************************)
(* error.js: invokeWithErrorHandling; lifecycle.js: callHook; state.js:    *)
(* getData                                                                 *)
(***************************************************************************)
\* invokeWithErrorHandling: the catch block
InvokeThen(s, w, info) ==
  IF s.exc THEN HandleError([s EXCEPT !.exc = FALSE], w, info) ELSE s

\* invokeWithErrorHandling(handler, context, args, vm, info) of a handler that returns
\* no promise
InvokeWithErrorHandling(s, handler, w, info) == InvokeThen(Exec(s, handler, 1), w, info)

\* The loop of callHook over vm.$options[hook]; what a call throws ends the loop.
RECURSIVE CallHookLoop(_, _, _, _)
CallHookLoop(s, handlers, i, info) ==
  IF i > Len(handlers) \/ s.exc THEN s
  ELSE CallHookLoop(InvokeWithErrorHandling(s, handlers[i], 0, info), handlers, i + 1,
                    info)

\* callHook: popTarget(), the last statement, is reached when nothing was thrown.
CallHookThen(s) == IF s.exc THEN s ELSE PopTarget(s)

\* The log of a call of callHook.
HookLog(s, hook) ==
  [s.g EXCEPT !.hooks = Append(@, [hook |-> hook, queue |-> s.queue, has |-> s.has,
                                   index |-> s.index, waiting |-> s.waiting,
                                   flushing |-> s.flushing, queued |-> Len(s.g.queued)])]

\* callHook(vm, hook) of an owner without hook events
CallHook(s, hook) ==
  CallHookThen(CallHookLoop(PushTarget([s EXCEPT !.g = HookLog(s, hook)], 0),
                            s.vm.options[hook], 1, hook \o " hook"))

\* getData: the catch block; the empty object it returns is not held by the model.
GetDataCatch(s) ==
  IF s.exc THEN HandleError([s EXCEPT !.exc = FALSE, !.ret = Undef], 0, "data()") ELSE s

\* getData(data, vm)
GetData(s, data) == PopTarget(GetDataCatch(Exec(PushTarget(s, 0), data, 1)))

(***************************************************************************)
(* User code.  A getter or a callback is a list of steps over the owner's  *)
(* state (paths start at vm, whose keys proxy vm._data):                   *)
(*   get p        return vm.p                                              *)
(*   cond p q r   return vm.p ? vm.q : vm.r                                *)
(*   set p v      vm.p = v                                                 *)
(*   toggle p     vm.p = 1 - vm.p                                          *)
(*   unwatch w    call the function $watch returned for watcher w          *)
(*   assert p     if (!vm.p) throw new Error()                             *)
(*   computed w   return vm.k, the computed property whose watcher is w    *)
(*   hook h       callHook(child, h) of a child owner with the options of  *)
(*                vm, which the function creates and mounts                *)
(***************************************************************************)
OpGet(p) == [op |-> "get", p |-> p, q |-> <<>>, r |-> <<>>, v |-> Undef]
OpCond(p, q, r) == [op |-> "cond", p |-> p, q |-> q, r |-> r, v |-> Undef]
OpSet(p, v) == [op |-> "set", p |-> p, q |-> <<>>, r |-> <<>>, v |-> v]
OpToggle(p) == [op |-> "toggle", p |-> p, q |-> <<>>, r |-> <<>>, v |-> Undef]
OpUnwatch(w) == [op |-> "unwatch", p |-> <<>>, q |-> <<>>, r |-> <<>>, v |-> Num(w)]
OpAssert(p) == [op |-> "assert", p |-> p, q |-> <<>>, r |-> <<>>, v |-> Undef]
OpComputed(w) == [op |-> "computed", p |-> <<>>, q |-> <<>>, r |-> <<>>, v |-> Num(w)]
OpHook(h) == [op |-> "hook", p |-> <<h>>, q |-> <<>>, r |-> <<>>, v |-> Undef]

\* The function parsePath returns: follow the segments, undefined once a value is falsy.
RECURSIVE ReadPath(_, _, _)
ReadPath(s, p, i) ==
  IF i > Len(p) THEN s
  ELSE IF ~Truthy(s.ret) THEN [s EXCEPT !.ret = Undef]
  ELSE IF ~IsObject(s.ret) THEN ReadPath([s EXCEPT !.ret = Undef], p, i + 1)
  ELSE ReadPath(ReadProp(s, s.ret.v, p[i]), p, i + 1)

ReadFromRoot(s, p) == ReadPath([s EXCEPT !.ret = Ref(RootId)], p, 1)

\* vm.p = v: the assignment, once the owner of the last segment is read.  Assigning
\* to a property of undefined or of a number is a TypeError, recorded as a warning.
WritePathThen(s, k, v) ==
  IF IsObject(s.ret) THEN AssignProp(s, s.ret.v, k, v)
  ELSE [s EXCEPT !.g.warns = Append(@, "TypeError")]

\* vm.p = v
WritePath(s, p, v) == WritePathThen(ReadFromRoot(s, SubSeq(p, 1, Len(p) - 1)), Last(p), v)

Flip(v) == IF v = Num(0) THEN Num(1) ELSE Num(0)

SetRet(s, v) == [s EXCEPT !.ret = v]

CondThen(s, q, r) == IF Truthy(s.ret) THEN ReadFromRoot(s, q) ELSE ReadFromRoot(s, r)

ToggleThen(s, p) == WritePath(s, p, Flip(s.ret))

AssertThen(s) == IF Truthy(s.ret) THEN s ELSE [s EXCEPT !.exc = TRUE]

ExecOp(s, o) ==
  CASE o.op = "get" -> ReadFromRoot(s, o.p)
    [] o.op = "cond" -> CondThen(ReadFromRoot(s, o.p), o.q, o.r)
    [] o.op = "set" -> SetRet(WritePath(s, o.p, o.v), s.ret)
    [] o.op = "toggle" -> SetRet(ToggleThen(ReadFromRoot(s, o.p), o.p), s.ret)
    [] o.op = "unwatch" -> Teardown(s, o.v.v)
    [] o.op = "assert" -> AssertThen(ReadFromRoot(s, o.p))
    [] o.op = "computed" -> ComputedGetter(s, o.v.v)
    [] o.op = "hook" -> CallHook(s, o.p[1])

\* The steps of a function in order, up to the step that throws.
Exec(s, prog, i) ==
  IF i > Len(prog) \/ s.exc THEN s ELSE Exec(ExecOp(s, prog[i]), prog, i + 1)

(***************************************************************************)
(* traverse.js (not among the sources): touch every property reachable     *)
(* from the value, so that each is read through its getter.  The operators *)
(* return the state and the set of objects seen.                           *)
(***************************************************************************)
RECURSIVE TraverseKeys(_, _, _, _)
RECURSIVE TraverseItems(_, _, _, _)

Traverse(s, v, seen) ==
  IF ~IsObject(v) \/ v.v \in seen THEN [s |-> s, seen |-> seen]
  ELSE IF s.heap[v.v].kind = "arr"
  THEN TraverseItems(s, v.v, Len(s.heap[v.v].items), seen \cup {v.v})
  ELSE TraverseKeys(s, v.v, Len(s.heap[v.v].keys), seen \cup {v.v})

TraverseRead(s, seen) == Traverse(s, s.ret, seen)

TraverseKeysThen(r, o, i) == TraverseKeys(r.s, o, i, r.seen)

TraverseKeys(s, o, i, seen) ==
  IF i = 0 THEN [s |-> s, seen |-> seen]
  ELSE TraverseKeysThen(TraverseRead(ReadProp(s, o, s.heap[o].keys[i]), seen), o, i - 1)

TraverseItemsThen(r, o, i) == TraverseItems(r.s, o, i, r.seen)

TraverseItems(s, o, i, seen) ==
  IF i = 0 THEN [s |-> s, seen |-> seen]
  ELSE TraverseItemsThen(Traverse(s, s.heap[o].items[i], seen), o, i - 1)

(***************************************************************************)
(* watcher.js                                                              *)
(***************************************************************************)
\* The log of a get() that finishes.
GetLog(s, w) ==
  LET f == Last(s.g.frames)
  IN [s EXCEPT !.g.frames = SubSeq(@, 1, Len(@) - 1),
               !.g.gets = Append(@, [w |-> w, reads |-> f.reads,
                                     inner |-> \E i \in (f.n + 1)..Len(s.g.gets) :
                                                 s.g.gets[i].w = w,
                                     depIds |-> s.ws[w].depIds,
                                     newDepIds |-> s.ws[w].newDepIds,
                                     subs |-> {d \in DOMAIN s.subs :
                                                 w \in Range(s.subs[d])}])]

\* Watcher.prototype.get without the traversal of a deep unit's value
GetThenNoTraverse(s, w) == SetRet(GetLog(CleanupDeps(PopTarget(s), w), w), s.ret)

\* Watcher.prototype.get whose cleanup is skipped when the getter threw
GetThenNoFinally(s, w) ==
  IF s.exc THEN [s EXCEPT !.g.frames = SubSeq(@, 1, Len(@) - 1)]
  ELSE SetRet(GetLog(CleanupDeps(PopTarget(IF s.ws[w].deep THEN Traverse(s, s.ret, {}).s
                                           ELSE s),
                                 w),
                     w),
              s.ret)

\* Watcher.prototype.get: the finally block and the return
GetThen(s, w) ==
  SetRet(GetLog(CleanupDeps(PopTarget(IF s.ws[w].deep THEN Traverse(s, s.ret, {}).s ELSE s),
                            w),
                w),
         s.ret)

\* Watcher.prototype.get: the catch block.  value is still undefined; the error of a
\* user watcher goes to handleError, that of another watcher is thrown again.
GetCatch(s, w) ==
  IF ~s.exc THEN s
  ELSE IF s.ws[w].user THEN HandleError([s EXCEPT !.exc = FALSE, !.ret = Undef], w, "getter")
  ELSE [s EXCEPT !.ret = Undef]

\* Watcher.prototype.get
Get(s, w) ==
  GetThen(GetCatch(Exec(PushTarget([s EXCEPT !.g.evals = Append(@, w), !.ret = Undef,
                                             !.g.frames =
                                               Append(@, [w |-> w, reads |-> {},
                                                          n |-> Len(s.g.gets)])],
                                   w),
                        s.ws[w].getter, 1),
                   w),
          w)

\* Watcher.prototype.run that does not store the new value
RunThenKeepValue(s, w) ==
  IF ~StrictEq(s.ret, s.ws[w].value) \/ IsObject(s.ret) \/ s.ws[w].deep
  THEN Exec([s EXCEPT !.g.cbs = Append(@, <<w, s.ret, s.ws[w].value>>)], s.ws[w].cb, 1)
  ELSE s

\* Watcher.prototype.run: invokeWithErrorHandling catches what a user callback throws.
CbThen(s, w) ==
  IF s.exc /\ s.ws[w].user THEN HandleError([s EXCEPT !.exc = FALSE], w, "callback")
  ELSE s

\* Watcher.prototype.run: after const value = this.get()
RunThen(s, w) ==
  IF s.exc THEN s
  ELSE IF ~StrictEq(s.ret, s.ws[w].value) \/ IsObject(s.ret) \/ s.ws[w].deep
  THEN CbThen(Exec([s EXCEPT !.ws[w].value = s.ret,
                             !.g.cbs = Append(@, <<w, s.ret, s.ws[w].value>>)],
                   s.ws[w].cb, 1),
              w)
  ELSE s

\* The log of a call of run(): a call on an inactive watcher is noted with the
\* getter invocations and the callbacks so far.
RunLog(s, w) ==
  [s.g EXCEPT !.runs = Append(@, w),
              !.dead = IF s.ws[w].active THEN @
                       ELSE Append(@, <<w, Len(s.g.evals), Len(s.g.cbs)>>)]

\* Watcher.prototype.run without the test of this.active
RunAlways(s, w) == RunThen(Get([s EXCEPT !.g = RunLog(s, w)], w), w)

\* Watcher.prototype.run
Run(s, w) ==
  IF ~s.ws[w].active THEN [s EXCEPT !.g = RunLog(s, w)]
  ELSE RunThen(Get([s EXCEPT !.g = RunLog(s, w)], w), w)

\* nextTick(cb) with callbacks.unshift in place of callbacks.push
NextTickFront(s, cb) ==
  IF ~s.pending
  THEN [s EXCEPT !.callbacks = <<cb>> \o @, !.pending = TRUE, !.timers = @ + 1,
                 !.g.asked = Append(@, cb)]
  ELSE [s EXCEPT !.callbacks = <<cb>> \o @, !.g.asked = Append(@, cb)]

\* nextTick(cb)
NextTick(s, cb) ==
  IF ~s.pending
  THEN [s EXCEPT !.callbacks = Append(@, cb), !.pending = TRUE, !.timers = @ + 1,
                 !.g.asked = Append(@, cb)]
  ELSE [s EXCEPT !.callbacks = Append(@, cb), !.g.asked = Append(@, cb)]

(***************************************************************************)
(* scheduler.js                                                            *)
(***************************************************************************)
MAX_UPDATE_COUNT == 100

CircularOf(s, w) == IF w \in DOMAIN s.circular THEN s.circular[w] ELSE 0

\* resetSchedulerState (activatedChildren belongs to the keep-alive collaborator)
ResetSchedulerState(s) ==
  [s EXCEPT !.index = 0, !.queue = <<>>, !.has = {}, !.circular = <<>>,
            !.waiting = FALSE, !.flushing = FALSE]

\* flushSchedulerQueue that does not sort the queue
FlushBeginUnsorted(s) ==
  [s EXCEPT !.flushing = TRUE, !.index = 0, !.aborted = FALSE,
            !.g = [Log("flush", 0, <<>>, s.g.turn, s.g.writes)
                   EXCEPT !.start = s.queue, !.frames = s.g.frames, !.asked = s.g.asked,
                          !.tbatch = s.g.tbatch, !.ticked = s.g.ticked,
                          !.arg = IF s.g.writes = 1 THEN s.g.arg ELSE <<>>]]

\* The part of flushSchedulerQueue before its loop.
FlushBegin(s) ==
  LET q == SortIds(s.queue)
  IN [s EXCEPT !.flushing = TRUE, !.queue = q, !.index = 0, !.aborted = FALSE,
               !.g = [Log("flush", 0, <<>>, s.g.turn, s.g.writes)
                      EXCEPT !.start = q, !.frames = s.g.frames, !.asked = s.g.asked,
                             !.tbatch = s.g.tbatch, !.ticked = s.g.ticked,
                             !.arg = IF s.g.writes = 1 THEN s.g.arg ELSE <<>>]]

\* The circular check with >= in place of >
FlushIterThenOffByOne(s, id) ==
  IF id \in s.has
  THEN IF CircularOf(s, id) + 1 >= MAX_UPDATE_COUNT
       THEN [s EXCEPT !.circular = (id :> CircularOf(s, id) + 1) @@ @,
                      !.aborted = TRUE, !.g.abort = id,
                      !.g.warns = Append(@, "infinite update loop")]
       ELSE [s EXCEPT !.circular = (id :> CircularOf(s, id) + 1) @@ @,
                      !.index = @ + 1]
  ELSE [s EXCEPT !.index = @ + 1]

\* The loop body of flushSchedulerQueue after watcher.run(): the circular check
FlushIterThen(s, id) ==
  IF s.exc THEN s
  ELSE IF id \in s.has
  THEN IF CircularOf(s, id) + 1 > MAX_UPDATE_COUNT
       THEN [s EXCEPT !.circular = (id :> CircularOf(s, id) + 1) @@ @,
                      !.aborted = TRUE, !.g.abort = id,
                      !.g.warns = Append(@, "infinite update loop")]
       ELSE [s EXCEPT !.circular = (id :> CircularOf(s, id) + 1) @@ @,
                      !.index = @ + 1]
  ELSE [s EXCEPT !.index = @ + 1]

\* watcher.before(): only the render watcher mountComponent constructs has the option.
Before(s, id) ==
  IF s.vm.watcher = id /\ s.vm.isMounted /\ ~s.vm.isBeingDestroyed
  THEN CallHook(s, "beforeUpdate")
  ELSE s

\* The loop body of flushSchedulerQueue without has[id] = null
FlushIterRunKeepHas(s, id) ==
  IF s.exc THEN s ELSE FlushIterThen(Run([s EXCEPT !.g.ran = @ + 1], id), id)

\* The loop body of flushSchedulerQueue after watcher.before()
FlushIterRun(s, id) ==
  IF s.exc THEN s
  ELSE FlushIterThen(Run([s EXCEPT !.has = @ \ {id}, !.g.ran = @ + 1], id), id)

\* One iteration of the loop of flushSchedulerQueue.
FlushIter(s) == FlushIterRun(Before(s, s.queue[s.index + 1]), s.queue[s.index + 1])

\* The loop of flushSchedulerQueue, when it is run within one call.
FlushLoop(s) ==
  IF s.aborted \/ s.exc \/ s.index >= Len(s.queue) THEN s ELSE FlushLoop(FlushIter(s))

\* callUpdatedHooks(queue), from the last watcher to the first.  $destroy sets
\* _isDestroyed in the call that sets _isBeingDestroyed.
RECURSIVE CallUpdatedHooks(_, _, _)
CallUpdatedHooks(s, q, i) ==
  IF i = 0 \/ s.exc THEN s
  ELSE CallUpdatedHooks(IF s.vm.watcher = q[i] /\ s.vm.isMounted /\ ~s.vm.isBeingDestroyed
                        THEN CallHook(s, "updated")
                        ELSE s,
                        q, i - 1)

\* flushSchedulerQueue that calls the updated hooks before resetSchedulerState()
FlushFinishHooksFirst(s) ==
  [ResetSchedulerState(CallUpdatedHooks(s, s.queue, Len(s.queue)))
   EXCEPT !.aborted = FALSE, !.g.act = "flushed"]

\* The part of flushSchedulerQueue after its loop (no child is kept alive, so
\* activatedChildren is empty; the devtools event belongs to a collaborator).
FlushFinish(s) ==
  CallUpdatedHooks([ResetSchedulerState(s) EXCEPT !.aborted = FALSE, !.g.act = "flushed"],
                   s.queue, Len(s.queue))

\* flushSchedulerQueue after its loop, unless run() threw
FlushDone(s) == IF s.exc THEN s ELSE FlushFinish(s)

\* flushSchedulerQueue, called inline when config.async is false
FlushSchedulerQueue(s) == FlushDone(FlushLoop(FlushBegin(s)))

\* queueWatcher that pushes the watcher at the end of the queue during a flush too
InsertPosEnd(s, id, i) == i

\* The while loop of queueWatcher: the position after which the watcher is spliced in.
RECURSIVE InsertPos(_, _, _)
InsertPos(s, id, i) ==
  IF i > s.index /\ s.queue[i + 1] > id THEN InsertPos(s, id, i - 1) ELSE i

\* queueWatcher: if (!waiting) { ... }
QueueWatcherThen(s) ==
  IF s.waiting THEN s
  ELSE IF ~s.async THEN FlushSchedulerQueue([s EXCEPT !.waiting = TRUE])
  ELSE NextTick([s EXCEPT !.waiting = TRUE], "flush")

\* queueWatcher without the test of has[id]
QueueWatcherNoHas(s, w) ==
  QueueWatcherThen(
    [s EXCEPT !.has = @ \cup {w}, !.g.queued = Append(@, w),
              !.queue = IF ~s.flushing THEN Append(@, w)
                        ELSE InsertAt(@, InsertPos(s, w, Len(s.queue) - 1) + 1, w)])

\* queueWatcher
QueueWatcher(s, w) ==
  IF w \in s.has THEN s
  ELSE QueueWatcherThen(
         [s EXCEPT !.has = @ \cup {w}, !.g.queued = Append(@, w),
                   !.queue = IF ~s.flushing THEN Append(@, w)
                             ELSE InsertAt(@, InsertPos(s, w, Len(s.queue) - 1) + 1, w)])

\* Watcher.prototype.update
Update(s, w) ==
  IF s.ws[w].lazy
  THEN [s EXCEPT !.ws[w].dirty = TRUE, !.g.updates = Append(@, w), !.g.turn = Append(@, w)]
  ELSE IF s.ws[w].sync
  THEN Run([s EXCEPT !.g.updates = Append(@, w), !.g.turn = Append(@, w)], w)
  ELSE QueueWatcher([s EXCEPT !.g.updates = Append(@, w), !.g.turn = Append(@, w)], w)

\* Options and functions a watcher is constructed from.
Prog(getter, cb, lazy, sync, deep, user) ==
  [getter |-> getter, cb |-> cb, lazy |-> lazy, sync |-> sync, deep |-> deep,
   user |-> user]

\* new Watcher: this.value = this.get()
NewWatcherThen(s, id) == IF s.exc THEN s ELSE [s EXCEPT !.ws[id].value = s.ret]

\* new Watcher(vm, expOrFn, cb, options)
NewWatcherOp(s, p) ==
  LET w == [lazy |-> p.lazy, sync |-> p.sync, deep |-> p.deep, user |-> p.user,
            getter |-> p.getter, cb |-> p.cb, active |-> TRUE, dirty |-> p.lazy,
            deps |-> <<>>, newDeps |-> <<>>, depIds |-> {}, newDepIds |-> {},
            value |-> Undef]
  IN IF p.lazy
     THEN [s EXCEPT !.ws = Append(@, w), !.vm.watchers = Append(@, Len(s.ws) + 1)]
     ELSE NewWatcherThen(Get([s EXCEPT !.ws = Append(@, w),
                                       !.vm.watchers = Append(@, Len(s.ws) + 1)],
                             Len(s.ws) + 1),
                         Len(s.ws) + 1)

\* mountComponent: new Watcher(vm, updateComponent, noop, {before}, true), whose
\* constructor sets vm._watcher before it calls get()
MountWatcher(s, p) ==
  IF s.exc THEN s ELSE NewWatcherOp([s EXCEPT !.vm.watcher = Len(s.ws) + 1], p)

\* mountComponent: after the render watcher is constructed (vm.$vnode is null)
MountThen(s) ==
  IF s.exc THEN s ELSE CallHook([s EXCEPT !.vm.isMounted = TRUE], "mounted")

\* mountComponent(vm, el) of an owner with a render function p
MountComponent(s, p) == MountThen(MountWatcher(CallHook(s, "beforeMount"), p))

\* $watch: the immediate call of cb, popTarget() after it when nothing was thrown
WatchPop(s) == IF s.exc THEN s ELSE PopTarget(s)

\* $watch: if (options.immediate) { ... }
WatchThen(s, immediate) ==
  IF s.exc \/ ~immediate THEN s
  ELSE WatchPop(InvokeWithErrorHandling(
                  PushTarget([s EXCEPT !.g.cbs = Append(@, <<Len(s.ws), Last(s.ws).value,
                                                            Undef>>)],
                             0),
                  Last(s.ws).cb, Len(s.ws), "callback for immediate watcher"))

\* vm.$watch(expOrFn, cb, options) with a function cb
Watch(s, p, immediate) == WatchThen(NewWatcherOp(s, [p EXCEPT !.user = TRUE]), immediate)

(***************************************************************************)
(* util/lang.js: parsePath.  A path is a string, here the sequence of its  *)
(* character codes.                                                        *)
(***************************************************************************)
\* The class unicodeRegExp.source: what the source calls unicode letters
UnicodeLetter(c) ==
  \/ c \in 97..122 \/ c \in 65..90 \/ c = 183 \/ c \in 192..214 \/ c \in 216..246
  \/ c \in 248..893 \/ c \in 895..8191 \/ c \in 8204..8205 \/ c \in 8255..8256
  \/ c \in 8304..8591 \/ c \in 11264..12271 \/ c \in 12289..55295
  \/ c \in 63744..64975 \/ c \in 65008..65533

\* bailRE.test(path): a character that is no unicode letter, '.', '$', '_' or digit
BailRE(path) ==
  \E i \in DOMAIN path :
    ~(UnicodeLetter(path[i]) \/ path[i] = 46 \/ path[i] = 36 \/ path[i] = 95
      \/ path[i] \in 48..57)

\* path.split('.'): the segments between the dots
RECURSIVE Split(_, _, _)
Split(path, i, seg) ==
  IF i > Len(path) THEN <<seg>>
  ELSE IF path[i] = 46 THEN <<seg>> \o Split(path, i + 1, <<>>)
  ELSE Split(path, i + 1, Append(seg, path[i]))

\* String.fromCharCode(c) for the characters of the modelled paths
Chr(c) ==
  CASE c = 97 -> "a" [] c = 98 -> "b" [] c = 36 -> "$" [] c = 95 -> "_"
    [] c = 48 -> "0" [] c = 32 -> " " [] c = 91 -> "[" [] c = 46 -> "."
    [] OTHER -> "?"

\* A segment as the property key it is used as
RECURSIVE KeyOf(_)
KeyOf(seg) == IF seg = <<>> THEN "" ELSE Chr(Head(seg)) \o KeyOf(Tail(seg))

Segments(path) == [i \in DOMAIN Split(path, 1, <<>>) |-> KeyOf(Split(path, 1, <<>>)[i])]

\* parsePath that never bails
ParsePathNoBail(path) == [ok |-> TRUE, getter |-> <<OpGet(Segments(path))>>]

\* parsePath(path): nothing, or the function that follows the segments
ParsePath(path) ==
  IF BailRE(path) THEN [ok |-> FALSE, getter |-> <<>>]
  ELSE [ok |-> TRUE, getter |-> <<OpGet(Segments(path))>>]

\* new Watcher(vm, path, cb, options): the getter is parsePath(path), or noop and a
\* warning when parsePath returns nothing
NewWatcherPath(s, path, p) ==
  IF ParsePath(path).ok THEN NewWatcherOp(s, [p EXCEPT !.getter = ParsePath(path).getter])
  ELSE NewWatcherOp([s EXCEPT !.g.warns = Append(@, "Failed watching path")],
                    [p EXCEPT !.getter = <<>>])

(***************************************************************************)
(* next-tick.js                                                            *)
(***************************************************************************)
\* A callback is "flush" (flushSchedulerQueue, given by queueWatcher) or one a handler
\* gave to vm.$nextTick:
\*   "a", "b"   functions that touch nothing of the model
\*   "more"     function () { vm.$nextTick(a) }
\*   "throw"    function () { throw new Error() }
TickCallback(s, cb) ==
  CASE cb = "more" -> NextTick(s, "a")
    [] cb = "throw" -> [s EXCEPT !.exc = TRUE]
    [] OTHER -> s

RECURSIVE NextCallback(_)

\* The callback nextTick pushed: what cb threw goes to handleError(e, ctx, 'nextTick');
\* what handleError throws leaves flushCallbacks with the copies not yet called.
FlushCaughtThen(s) ==
  IF s.exc THEN [Return(s) EXCEPT !.copies = <<>>, !.pc = "idle"] ELSE NextCallback(s)

FlushCaught(s) ==
  IF ~s.exc THEN s
  ELSE FlushCaughtThen(HandleError([s EXCEPT !.exc = FALSE], 0, "nextTick"))

\* The callback of a handler has returned or thrown.
CallbackDone(s) == IF s.exc THEN FlushCaught(s) ELSE NextCallback(s)

\* The loop of flushCallbacks: call the next copy, or return to the event loop.
NextCallback(s) ==
  IF s.copies = <<>> THEN [s EXCEPT !.pc = "idle"]
  ELSE IF Head(s.copies) = "flush"
  THEN [FlushBegin(s) EXCEPT !.copies = Tail(s.copies), !.pc = "flush",
                             !.g.ticked = Append(@, "flush")]
  ELSE CallbackDone(TickCallback([s EXCEPT !.copies = Tail(s.copies),
                                           !.g.ticked = Append(@, Head(s.copies))],
                                 Head(s.copies)))

\* flushCallbacks, up to the call of the first copy
FlushCallbacks(s) ==
  NextCallback([s EXCEPT !.timers = @ - 1, !.pending = FALSE, !.copies = s.callbacks,
                         !.callbacks = <<>>, !.g.tbatch = s.g.asked, !.g.asked = <<>>,
                         !.g.ticked = <<>>])

\* The hooks of vm.$options the model holds; an empty list stands for no handlers.
NoHooks == [beforeMount |-> <<>>, mounted |-> <<>>, beforeUpdate |-> <<>>, updated |-> <<>>]

(***************************************************************************)
(* Initial states: the owner's data object, observed as root data          *)
(* (initData: observe(data, true)), then the owner's watchers, constructed *)
(* in the order given.                                                     *)
(***************************************************************************)
Boot(h, isAsync) ==
  Observe([heap |-> h, subs |-> <<>>, depUid |-> 0, ws |-> <<>>,
           vm |-> [watchers |-> <<>>, isBeingDestroyed |-> FALSE, watcher |-> 0,
                   isMounted |-> FALSE, options |-> NoHooks],
           stack |-> <<>>,
           target |-> 0, queue |-> <<>>, has |-> {}, circular |-> <<>>,
           waiting |-> FALSE, flushing |-> FALSE, index |-> 0, callbacks |-> <<>>,
           pending |-> FALSE, timers |-> 0, copies |-> <<>>, async |-> isAsync,
           inBrowser |-> TRUE, exc |-> FALSE,
           pc |-> "idle", aborted |-> FALSE, ret |-> Undef,
           g |-> Log("init", 0, <<>>, <<>>, 0)],
          Ref(RootId), TRUE)

\* The watchers of the owner, constructed one after the other.
RECURSIVE Construct(_, _, _)
Construct(s, ps, i) ==
  IF i > Len(ps) THEN [s EXCEPT !.g = Log("init", 0, <<>>, <<>>, 0)]
  ELSE Construct(NewWatcherOp(s, ps[i]), ps, i + 1)

InitFrom(s) ==
  /\ heap = s.heap /\ subs = s.subs /\ depUid = s.depUid /\ ws = s.ws
  /\ vm = s.vm
  /\ stack = s.stack /\ target = s.target /\ queue = s.queue /\ has = s.has
  /\ circular = s.circular /\ waiting = s.waiting /\ flushing = s.flushing
  /\ index = s.index /\ callbacks = s.callbacks /\ pending = s.pending
  /\ timers = s.timers /\ copies = s.copies /\ async = s.async
  /\ inBrowser = s.inBrowser /\ exc = s.exc /\ pc = s.pc
  /\ aborted = s.aborted /\ ret = s.ret /\ g = s.g

(***************************************************************************)
(* Operations of the environment and steps of the thread of control.       *)
(***************************************************************************)
\* An event handler assigns vm.p = v.
Write(p, v) ==
  /\ pc = "idle"
  /\ ~waiting \/ g.writes < MaxWrites
  /\ Commit(Return(WritePath([Cur EXCEPT !.g = OpLog(Cur, "write",
                                                     <<p, v, ReadFromRoot(Cur, p).ret>>)],
                             p, v)))

\* vm.p.m(...): the patched method, once the array is read
CallThen(s, c) == Mutator(s, s.ret.v, c)

\* An event handler calls a method of the array vm.p.
ArrayCall(p, c) ==
  /\ pc = "idle"
  /\ ~waiting \/ g.writes < MaxWrites
  /\ IsObject(ReadFromRoot(Cur, p).ret)
  /\ Len(heap[ReadFromRoot(Cur, p).ret.v].items) + Len(c.args) <= MaxLen
  /\ Commit(Return(CallThen(ReadFromRoot([Cur EXCEPT !.g = OpLog(Cur, "call", <<p, c>>)],
                                         p),
                            c)))

\* A handler calls set(target, key, val) on the object it holds.
SetCall(o, key, val) ==
  /\ pc = "idle"
  /\ ~waiting \/ g.writes < MaxWrites
  /\ (heap[o].kind = "arr") = key.idx
  /\ key.idx => key.i < MaxLen
  /\ depUid < MaxDeps
  /\ Commit(Return(SetOp([Cur EXCEPT !.g = OpLog(Cur, "set", <<o, key, val>>)],
                         o, key, val)))

\* A handler calls del(target, key) on the object it holds.
DelCall(o, key) ==
  /\ pc = "idle"
  /\ ~waiting \/ g.writes < MaxWrites
  /\ (heap[o].kind = "arr") = key.idx
  /\ Commit(Return(DelOp([Cur EXCEPT !.g = OpLog(Cur, "del", <<o, key>>)], o, key)))

\* A handler calls the function $watch returned for watcher w.
Unwatch(w) ==
  /\ pc = "idle"
  /\ ~waiting \/ g.writes < MaxWrites
  /\ Commit(Return(Teardown([Cur EXCEPT !.g = OpLog(Cur, "teardown", <<w>>)], w)))

\* A handler calls vm.$watch(path, cb), once.
WatchPath(path) ==
  /\ pc = "idle"
  /\ ~waiting
  /\ ws = <<>>
  /\ Commit(Return(NewWatcherPath([Cur EXCEPT !.g = OpLog(Cur, "watch", <<path>>)], path,
                                  Prog(<<>>, <<>>, FALSE, FALSE, FALSE, TRUE))))

\* observe(value, asRootData) is called on an object the handlers hold: by initData of
\* one more owner whose data it is (asRootData), or for a nested value.
ObserveCall(o, asRoot) ==
  /\ pc = "idle"
  /\ ~waiting
  /\ depUid < MaxDeps
  /\ asRoot => heap[o].vmCount < MaxOwners
  /\ Commit(Return(Observe([Cur EXCEPT !.g = OpLog(Cur, "observe", <<o, asRoot>>)],
                           Ref(o), asRoot)))

\* initComputed / $watch / a render watcher: one more watcher of the owner is
\* constructed from the options p.
NewUnit(p) ==
  /\ pc = "idle"
  /\ ~waiting
  /\ Commit(Return(NewWatcherOp([Cur EXCEPT !.g = OpLog(Cur, "new", <<p>>)], p)))

\* A handler reads vm.k, the computed property whose watcher is w.
ReadComputed(w) ==
  /\ pc = "idle"
  /\ ws[w].lazy
  /\ Commit(Return(ComputedGetter([Cur EXCEPT !.g = [OpLog(Cur, "read", <<w>>)
                                                      EXCEPT !.writes = g.writes]],
                                  w)))

\* A handler reads vm.p.
Read(p) ==
  /\ pc = "idle"
  /\ Commit(Return(ReadFromRoot([Cur EXCEPT !.g = [OpLog(Cur, "get", <<p>>)
                                                    EXCEPT !.writes = g.writes]],
                                 p)))

\* vm.$mount(): mountComponent with the render function p, once.
Mount(p) ==
  /\ pc = "idle"
  /\ ~waiting
  /\ vm.watcher = 0
  /\ Commit(Return(MountComponent([Cur EXCEPT !.g = OpLog(Cur, "mount", <<p>>)], p)))

\* A handler calls vm.$watch(p.getter, p.cb, options).
WatchCall(p, immediate) ==
  /\ pc = "idle"
  /\ ~waiting
  /\ Commit(Return(Watch([Cur EXCEPT !.g = OpLog(Cur, "watch", <<p, immediate>>)],
                         p, immediate)))

\* initData of one more owner, whose data option is the function data, calls
\* getData(data, vm).
GetDataCall(data) ==
  /\ pc = "idle"
  /\ ~waiting
  /\ Commit(Return(GetData([Cur EXCEPT !.g = OpLog(Cur, "data", <<data>>)], data)))

\* The log of a call made on its own: the calls so far and this one.
CallLog(op, w, k) ==
  [g EXCEPT !.act = op, !.arg = Append(@, [op |-> op, w |-> w, k |-> k])]

\* pushTarget(w) is called (w = 0: pushTarget() without argument).
PushCall(w) ==
  /\ pc = "idle"
  /\ Commit(PushTarget([Cur EXCEPT !.g = CallLog("push", w, "")], w))

\* popTarget() is called.
PopCall ==
  /\ pc = "idle"
  /\ Commit(PopTarget([Cur EXCEPT !.g = CallLog("pop", 0, "")]))

\* vm.k is read under the readers pushed so far.
ReadCall(k) ==
  /\ pc = "idle"
  /\ Commit(ReadFromRoot([Cur EXCEPT !.g = CallLog("get", 0, k)], <<k>>))

\* A handler calls vm.$destroy().
Destroy ==
  /\ pc = "idle"
  /\ ~waiting \/ g.writes < MaxWrites
  /\ Commit(Return(DestroyOp([Cur EXCEPT !.g = OpLog(Cur, "destroy", <<>>)])))

\* The armed timer fires: flushCallbacks starts and calls its first callback.
TimerFire ==
  /\ pc = "idle"
  /\ timers > 0
  /\ Commit(FlushCallbacks(Cur))

\* One iteration of the flush loop.
FlushStep ==
  /\ pc = "flush"
  /\ ~aborted
  /\ index < Len(queue)
  /\ Len(queue) < MaxQueue
  /\ Commit(FlushCaught(FlushIter(Cur)))

\* flushSchedulerQueue has returned or thrown.
FlushEndThen(s) == IF s.exc THEN FlushCaught(s) ELSE NextCallback(s)

\* The flush loop is over: reset and hooks, then the next callback or back to the
\* event loop.
FlushEnd ==
  /\ pc = "flush"
  /\ aborted \/ index >= Len(queue)
  /\ Commit(FlushEndThen(FlushFinish(Cur)))

(***************************************************************************)
(* Spec: an owner with data {cond, a, b} and watchers whose functions only *)
(* read.                                                                   *)
(***************************************************************************)
DataKeys == <<"cond", "a", "b">>

\* The values the handlers assign to a key.
WriteVals(k) == IF k = "a" THEN {Num(0), Num(1), NaN} ELSE {Num(0), Num(1)}

DataHeap == <<PlainObj(DataKeys, [k \in Range(DataKeys) |-> Num(1)])>>

\* render-like unit: cond ? a : b
PCond == Prog(<<OpCond(<<"cond">>, <<"a">>, <<"b">>)>>, <<>>, FALSE, FALSE, FALSE, FALSE)
\* a user unit that reads a and b
PBoth == Prog(<<OpGet(<<"a">>), OpGet(<<"b">>)>>, <<>>, FALSE, FALSE, FALSE, TRUE)
\* computed-like unit over b
PLazyB == Prog(<<OpGet(<<"b">>)>>, <<>>, TRUE, FALSE, FALSE, FALSE)
\* vm.$watch('a', cb, {sync: true})
PSyncA == Prog(<<OpGet(<<"a">>)>>, <<>>, FALSE, TRUE, FALSE, TRUE)

Programs == {PCond, PBoth, PLazyB, PSyncA}

Init ==
  \E n \in 1..MaxWatchers : \E ps \in [1..n -> Programs] :
    InitFrom(Construct(Boot(DataHeap, TRUE), ps, 1))

Next ==
  \/ \E k \in Range(DataKeys) : \E v \in WriteVals(k) : Write(<<k>>, v)
  \/ TimerFire
  \/ FlushStep
  \/ FlushEnd

Spec == Init /\ [][Next]_vars

(***************************************************************************)
(* Properties checked under Spec.                                          *)
(***************************************************************************)
WIds == 1..Len(ws)

\* Neither lazy nor synchronous: update() hands the unit to the scheduler.
Batched(w) == ~ws[w].lazy /\ ~ws[w].sync

\* The Dep of property k of the root data object.
RootDep(k) == heap[RootId].pdep[k]

\* The unit is a subscriber of exactly the Deps in its current dependency set.
SubscribedExactly(w) ==
  \A d \in DOMAIN subs : (w \in Range(subs[d])) <=> (d \in ws[w].depIds)

\* The last operation was a write that changed the value of the key it names.
ChangingWrite(gg) == gg.act = "write" /\ ~SameValue(gg.arg[2], gg.arg[3])

\* C1 (batching): a unit that is neither lazy nor synchronous is in the queue at most
\* once, and while a flush is scheduled it is queued exactly when some write of the turn
\* called its update(); the flush that follows runs its getter exactly once if the turn
\* called its update() N >= 1 times, and not at all otherwise.
C1_Batching ==
  \A w \in WIds : Batched(w) =>
    /\ Count(queue, w) <= 1
    /\ (pc = "idle" /\ waiting) =>
         /\ timers = 1
         /\ (w \in Range(g.turn)) <=> (w \in Range(queue))
    /\ g.act = "flushed" => Count(g.evals, w) = IF w \in Range(g.batch) THEN 1 ELSE 0

\* C1 happens: a flush has just ended in which a unit with two dependencies, whose
\* update() was called by two writes of the turn, ran its getter once.
C1_Witness ==
  /\ g.act = "flushed"
  /\ g.bw >= 2
  /\ \E w \in WIds :
       /\ Batched(w)
       /\ Len(ws[w].deps) >= 2
       /\ Count(g.batch, w) >= 2
       /\ Count(g.evals, w) = 1

IsCondUnit(w) == ws[w].getter = PCond.getter

\* The branch of cond ? a : b that the current value of cond selects, and the other.
Taken == IF Truthy(heap[RootId].val["cond"]) THEN "a" ELSE "b"
Untaken == IF Truthy(heap[RootId].val["cond"]) THEN "b" ELSE "a"

\* A unit cond ? a : b that is not stale depends on cond and on the branch taken, and
\* is subscribed to these two Deps and to no other.
C2_Deps ==
  \A w \in WIds : (IsCondUnit(w) /\ w \notin has) =>
    /\ ws[w].depIds = {RootDep("cond"), RootDep(Taken)}
    /\ SubscribedExactly(w)

\* A write that changes the branch not taken neither updates, queues nor evaluates the
\* unit; a write that changes the branch taken queues it once.
C2_Step ==
  \A w \in WIds :
    (IsCondUnit(w) /\ w \notin has /\ pc = "idle" /\ pc' = "idle" /\ ChangingWrite(g')) =>
      /\ g'.arg[1] = <<Untaken>> =>
           /\ w \notin has'
           /\ w \notin Range(g'.updates)
           /\ Count(g'.evals, w) = 0
      /\ g'.arg[1] = <<Taken>> =>
           /\ Count(g'.updates, w) = 1
           /\ Count(queue', w) = 1

\* The flush after the write evaluates the unit once.
C2_Flush ==
  \A w \in WIds : (IsCondUnit(w) /\ g.act = "flushed" /\ w \in Range(g.start)) =>
    Count(g.evals, w) = 1

\* C2 (dependency precision): for a unit cond ? a : b, after each evaluation the unit
\* is subscribed to cond and to the branch taken only; changing the other branch causes
\* no re-evaluation, changing the branch taken causes exactly one.
C2_Precision == [](C2_Deps /\ C2_Flush) /\ [][C2_Step]_vars

\* C2 happens: cond has flipped to false and the unit was re-evaluated; a write then
\* changed a, which the unit no longer reads, and did not update the unit.
C2_Witness ==
  /\ ChangingWrite(g)
  /\ g.arg[1] = <<"a">>
  /\ ~Truthy(heap[RootId].val["cond"])
  /\ \E w \in WIds : IsCondUnit(w) /\ w \notin has /\ RootDep("b") \in ws[w].depIds
  /\ g.updates # <<>>

\* The position of the first run() of w in the flush (0: none).
FirstRun(w) ==
  IF w \in Range(g.runs)
  THEN CHOOSE i \in DOMAIN g.runs : g.runs[i] = w /\ \A j \in 1..(i - 1) : g.runs[j] # w
  ELSE 0

\* C4 (order): when units P and C with P.id < C.id are both in the queue as a flush
\* begins, C.run() is not invoked before P.run() in that flush.
C4_Order ==
  \A p \in WIds : \A c \in WIds :
    (p < c /\ p \in Range(g.start) /\ c \in Range(g.start) /\ FirstRun(c) > 0) =>
      (FirstRun(p) > 0 /\ FirstRun(p) < FirstRun(c))

\* C4 happens: a single write called update() on unit 2 before unit 1, and the flush
\* ran unit 1 before unit 2.
C4_Witness ==
  /\ g.act = "flushed"
  /\ g.bw = 1
  /\ g.batch = <<2, 1>>
  /\ g.runs = <<1, 2>>

(***************************************************************************)
(* SpecCycle: the same owner, with units whose callbacks or getters write  *)
(* the state that units watch.                                             *)
(***************************************************************************)
\* watch: { a () { this.a = 1 - this.a } }
PSelf == Prog(<<OpGet(<<"a">>)>>, <<OpToggle(<<"a">>)>>, FALSE, FALSE, FALSE, TRUE)
\* a unit whose getter writes what it reads
PSelfGetter ==
  Prog(<<OpToggle(<<"a">>), OpGet(<<"a">>)>>, <<>>, FALSE, FALSE, FALSE, FALSE)
\* watch: { a () { this.b = 1 - this.b } }
PAToB == Prog(<<OpGet(<<"a">>)>>, <<OpToggle(<<"b">>)>>, FALSE, FALSE, FALSE, TRUE)
\* watch: { b () { this.a = 1 - this.a } }
PBToA == Prog(<<OpGet(<<"b">>)>>, <<OpToggle(<<"a">>)>>, FALSE, FALSE, FALSE, TRUE)
CyclePrograms == {PSelf, PSelfGetter, PAToB, PBToA}

InitCycle ==
  \E n \in 1..MaxWatchers : \E ps \in [1..n -> CyclePrograms] :
    InitFrom(Construct(Boot(DataHeap, TRUE), ps, 1))

NextCycle ==
  \/ \E k \in {"a", "b"} : \E v \in {Num(0), Num(1)} : ~waiting /\ Write(<<k>>, v)
  \/ TimerFire
  \/ FlushStep
  \/ FlushEnd

SpecCycle == InitCycle /\ [][NextCycle]_vars

\* The positions of the queue that the flush in progress has not yet run (after the
\* break, index still names the position that ran last).
Pending == SubSeq(queue, index + (IF aborted THEN 2 ELSE 1), Len(queue))

SelfTrigger(w) == ws[w].getter = PSelfGetter.getter

\* C6 (cycle guard): a unit whose run() always makes itself stale again runs at most
\* MAX_UPDATE_COUNT + 1 times in one flush (the first run and 100 re-entries); when its
\* counter ends the flush, it has run exactly that many times, its counter is
\* MAX_UPDATE_COUNT + 1 and the diagnostic was reported.
C6_CycleGuard ==
  \A w \in WIds :
    /\ (SelfTrigger(w) /\ pc = "flush") => Count(g.runs, w) <= MAX_UPDATE_COUNT + 1
    /\ (SelfTrigger(w) /\ g.abort = w) =>
         /\ Count(g.runs, w) = MAX_UPDATE_COUNT + 1
         /\ g.warns = <<"infinite update loop">>
         /\ (pc = "flush" => aborted /\ CircularOf(Cur, w) = MAX_UPDATE_COUNT + 1)

\* C6 happens: the flush was ended by the counter of a self-triggering unit.
C6_Witness ==
  /\ g.act = "flushed"
  /\ g.abort # 0
  /\ SelfTrigger(g.abort)
  /\ Count(g.runs, g.abort) = MAX_UPDATE_COUNT + 1

\* C7 as claimed: every runaway cycle in a flush is caught by the per-unit counter, so
\* no unit runs more than MAX_UPDATE_COUNT + 1 times in one flush.
C7_CycleDetected == \A w \in WIds : Count(g.runs, w) <= MAX_UPDATE_COUNT + 1

(***************************************************************************)
(* SpecDeep: an owner whose data holds nested objects,                     *)
(*   data: { x: { nested: { deepProp: 1 } } }                              *)
(* and a second object { deepProp: NaN } that handlers assign to x.nested. *)
(***************************************************************************)
DeepPath == <<"x", "nested", "deepProp">>

DeepHeap ==
  << PlainObj(<<"x">>, "x" :> Ref(2)),
     PlainObj(<<"nested">>, "nested" :> Ref(3)),
     PlainObj(<<"deepProp">>, "deepProp" :> Num(1)),
     PlainObj(<<"deepProp">>, "deepProp" :> NaN) >>

\* The assignments of the handlers: <<path, value>>
DeepWrites ==
  {<<DeepPath, v>> : v \in {Num(1), Num(5), NaN}}
    \cup {<<(<<"x", "nested">>), Ref(o)>> : o \in {3, 4}}
    \cup {<<(<<"x">>), Ref(2)>>}

\* vm.$watch('x.nested.deepProp', cb)
PPath == Prog(<<OpGet(DeepPath)>>, <<>>, FALSE, FALSE, FALSE, TRUE)
\* vm.$watch('x.nested.deepProp', cb, {sync: true})
PPathSync == Prog(<<OpGet(DeepPath)>>, <<>>, FALSE, TRUE, FALSE, TRUE)
\* vm.$watch('x', cb, {deep: true})
PDeepX == Prog(<<OpGet(<<"x">>)>>, <<>>, FALSE, FALSE, TRUE, TRUE)
DeepPrograms == {PPath, PPathSync, PDeepX}

InitDeep ==
  \E n \in 1..MaxWatchers : \E ps \in [1..n -> DeepPrograms] :
    InitFrom(Construct(Boot(DeepHeap, TRUE), ps, 1))

NextDeep ==
  \/ \E pv \in DeepWrites : Write(pv[1], pv[2])
  \/ TimerFire
  \/ FlushStep
  \/ FlushEnd

SpecDeep == InitDeep /\ [][NextDeep]_vars

\* The object that holds the property a path names, and the property's key.
Holder(p) == ReadFromRoot(Cur, SubSeq(p, 1, Len(p) - 1)).ret.v
Key(p) == Last(p)

\* The step is an assignment by a handler, to an instrumented property, of a value
\* that is reference-equal to the property's value, or NaN over NaN.
SameWrite ==
  /\ pc = "idle" /\ pc' = "idle"
  /\ g'.act = "write"
  /\ g' # g
  /\ g'.arg[2] = g'.arg[3]
  /\ heap[Holder(g'.arg[1])].pdep[Key(g'.arg[1])] >= 0

\* C3 (idempotent write): assigning to a reactive property a value reference-equal to
\* its value, or NaN when the value is NaN, calls no notify(), updates no subscriber,
\* queues nothing, and leaves the stored value and the nested observer (childOb) as
\* they were.
C3_Idempotent ==
  [][SameWrite =>
       /\ g'.notes = <<>> /\ g'.updates = <<>> /\ g'.queued = <<>> /\ g'.runs = <<>>
       /\ heap' = heap
       /\ subs' = subs /\ ws' = ws
       /\ queue' = queue /\ has' = has /\ waiting' = waiting
       /\ callbacks' = callbacks /\ timers' = timers]_vars

\* C3 happens: NaN was assigned to a watched property that held NaN.
C3_Witness ==
  /\ g.act = "write"
  /\ g.arg[2] = g.arg[3]
  /\ g.arg[2] = NaN
  /\ heap[Holder(g.arg[1])].pdep[Key(g.arg[1])] >= 0
  /\ subs[heap[Holder(g.arg[1])].pdep[Key(g.arg[1])]] # <<>>

IsPathUnit(w) == ws[w].getter = PPath.getter

\* The callbacks of unit w in the log, in order.
CbsOf(w) == SelectSeq(g.cbs, LAMBDA c : c[1] = w)

\* C9 (round trip): after vm.p = v the read vm.p returns v; a synchronous unit watching
\* x.nested.deepProp receives (v, value before) within the assignment that changes the
\* property; a batched unit receives (v, value before) in the flush that follows a turn
\* with that single assignment.
C9_RoundTrip ==
  /\ g.act = "write" => ReadFromRoot(Cur, g.arg[1]).ret = g.arg[2]
  /\ \A w \in WIds :
       /\ (IsPathUnit(w) /\ ws[w].sync /\ ChangingWrite(g) /\ g.arg[1] = DeepPath) =>
            CbsOf(w) = << <<w, g.arg[2], g.arg[3]>> >>
       /\ (IsPathUnit(w) /\ ~ws[w].sync /\ g.act \in {"flush", "flushed"} /\ g.bw = 1
             /\ g.arg[1] = DeepPath /\ w \in Range(g.runs)) =>
            /\ CbsOf(w) = << <<w, g.arg[2], g.arg[3]>> >>
            /\ ws[w].value = g.arg[2]

\* C9 happens: x.nested.deepProp = 5 over the value 1, alone in its turn; the flush has
\* called the callback of a batched unit with (5, 1), and the property reads 5.
C9_Witness ==
  /\ g.act = "flushed"
  /\ g.bw = 1
  /\ g.arg = <<DeepPath, Num(5), Num(1)>>
  /\ ReadFromRoot(Cur, DeepPath).ret = Num(5)
  /\ \E w \in WIds : IsPathUnit(w) /\ ~ws[w].sync /\ <<w, Num(5), Num(1)>> \in Range(g.cbs)

\* The objects reachable from a value through properties (the data form a tree).
RECURSIVE ReachObjs(_, _)
ReachObjs(h, v) ==
  IF ~IsObject(v) THEN {}
  ELSE {v.v} \cup UNION {ReachObjs(h, h[v.v].val[k]) : k \in DOMAIN h[v.v].val}

\* The Deps of the properties of a set of objects.
PropDeps(h, objs) == UNION {{h[o].pdep[k] : k \in DOMAIN h[o].val} : o \in objs}

IsDeepUnit(w) == ws[w].deep /\ ws[w].getter = PDeepX.getter

\* A deep unit that is not stale is subscribed to the Dep of x and to the Dep of every
\* property reachable from x.
C10_Subscribed ==
  \A w \in WIds : (IsDeepUnit(w) /\ w \notin has) =>
    /\ ws[w].value = Ref(2)
    /\ ({RootDep("x")} \cup PropDeps(heap, ReachObjs(heap, Ref(2)))) \subseteq ws[w].depIds
    /\ SubscribedExactly(w)

\* A write that changes x.nested.deepProp calls update() on the deep unit and queues it.
C10_Step ==
  \A w \in WIds :
    (IsDeepUnit(w) /\ w \notin has /\ pc = "idle" /\ pc' = "idle" /\ ChangingWrite(g')
       /\ g'.arg[1] = DeepPath) =>
      /\ Count(g'.updates, w) = 1
      /\ Count(queue', w) = 1

\* Each run of the deep unit in a flush calls its callback, with the same reference as
\* value and as previous value.
C10_Flush ==
  \A w \in WIds : (IsDeepUnit(w) /\ g.act \in {"flush", "flushed"}) =>
    /\ Len(CbsOf(w)) = Count(g.runs, w)
    /\ \A i \in DOMAIN CbsOf(w) : CbsOf(w)[i] = <<w, Ref(2), Ref(2)>>
    /\ g.act = "flushed" => Count(g.runs, w) = Count(g.start, w)

\* C10 (deep watch): a deep unit over x is subscribed after each evaluation to the Deps
\* of all properties reachable from x; a write changing x.nested.deepProp makes it stale,
\* and its next run calls its callback although x is the same reference.
C10_DeepWatch == [](C10_Subscribed /\ C10_Flush) /\ [][C10_Step]_vars

\* C10 happens: the only write of the turn changed x.nested.deepProp, and the flush
\* called the deep unit's callback with (x, x).
C10_Witness ==
  /\ g.act = "flushed"
  /\ g.bw = 1
  /\ g.arg[1] = DeepPath
  /\ \E w \in WIds : IsDeepUnit(w) /\ <<w, Ref(2), Ref(2)>> \in Range(g.cbs)

(***************************************************************************)
(* SpecArray: an owner whose data holds an array,                          *)
(*   data: { arr: [2, 1] }                                                 *)
(* and two plain objects that handlers insert into it.                     *)
(***************************************************************************)
ArrayHeap ==
  << PlainObj(<<"arr">>, "arr" :> Ref(2)),
     PlainArr(<<Num(2), Num(1)>>),
     PlainObj(<<"k">>, "k" :> Num(1)),
     PlainObj(<<"k">>, "k" :> Num(2)) >>

\* The array vm.arr
ArrId == ArrayHeap[RootId].val["arr"].v

\* The calls of the handlers
ArrayCalls ==
  {Call("push", 0, 0, xs) : xs \in {<<Num(4)>>, <<Ref(3), Ref(4)>>}}
    \cup {Call("unshift", 0, 0, <<Ref(3)>>)}
    \cup {Call("splice", 1, 1, xs) : xs \in {<<>>, <<Ref(4), Num(4)>>}}
    \cup {Call(m, 0, 0, <<>>) : m \in {"pop", "shift", "sort", "reverse"}}

\* vm.$watch('arr', cb)
PArr == Prog(<<OpGet(<<"arr">>)>>, <<>>, FALSE, FALSE, FALSE, TRUE)
\* vm.$watch('arr', cb, {sync: true})
PArrSync == Prog(<<OpGet(<<"arr">>)>>, <<>>, FALSE, TRUE, FALSE, TRUE)

ArrayPrograms == {PArr, PArrSync}

InitArray ==
  \E ps \in [1..MaxWatchers -> ArrayPrograms] :
    InitFrom(Construct(Boot(ArrayHeap, TRUE), ps, 1))

NextArray ==
  \/ \E c \in ArrayCalls : ~waiting /\ ArrayCall(<<"arr">>, c)
  \/ TimerFire
  \/ FlushStep
  \/ FlushEnd

SpecArray == InitArray /\ [][NextArray]_vars

\* The elements a call inserts: the arguments of push and unshift, the arguments of
\* splice from the third on.
InsertedBy(c) == IF c.m \in {"push", "unshift", "splice"} THEN Range(c.args) ELSE {}

\* The value is reactive: not an object, or an object with an observer whose properties
\* all have a Dep.
Reactive(h, v) ==
  IsObject(v) => (h[v.v].ob /\ h[v.v].obDep >= 0 /\ \A k \in DOMAIN h[v.v].val : h[v.v].pdep[k] >= 0)

\* C8 (array interception): a call of a patched method on the reactive array changes
\* the array as the built-in does and returns the built-in's result; afterwards every
\* inserted element is reactive; notify() was called once, on the array observer's Dep,
\* and update() once on each unit subscribed to it, which queues a batched unit once.
C8_Step ==
  (pc = "idle" /\ pc' = "idle" /\ g'.act = "call" /\ g' # g) =>
    /\ heap'[ArrId].items = ArrayOriginal(ArrId, heap[ArrId].items, g'.arg[2]).items
    /\ ret' = ArrayOriginal(ArrId, heap[ArrId].items, g'.arg[2]).result
    /\ \A e \in InsertedBy(g'.arg[2]) : Reactive(heap', e)
    /\ g'.notes = <<heap[ArrId].obDep>>
    /\ \A w \in WIds :
         Count(g'.updates, w) = IF w \in Range(subs[heap[ArrId].obDep]) THEN 1 ELSE 0
    /\ \A w \in WIds : (Batched(w) /\ w \in Range(subs[heap[ArrId].obDep])) =>
         Count(queue', w) = 1

C8_Interception == [][C8_Step]_vars

\* C8 happens: push(o3, o4) on the watched array made the two plain objects reactive,
\* notified once and updated the batched unit once.
C8_Witness ==
  /\ g.act = "call"
  /\ g.arg[2] = Call("push", 0, 0, <<Ref(3), Ref(4)>>)
  /\ heap[3].ob /\ heap[4].ob
  /\ Len(g.notes) = 1
  /\ \E w \in WIds : Batched(w) /\ Count(g.updates, w) = 1 /\ w \in has

(***************************************************************************)
(* SpecSet: handlers call set and del on a target they hold.  The owner's  *)
(* data is { t: target } for a reactive target (an object with a data      *)
(* property and a getter-only accessor, or an array) and { t: 0 } when the *)
(* target is a plain object, a plain array or an owner instance.  Object 3 *)
(* is a plain object handed to set as the value.                           *)
(***************************************************************************)
TargetId == RootId + 1

ValObj == PlainObj(<<"z">>, "z" :> Num(1))

TargetObj ==
  [PlainObj(<<"k", "c">>, ("k" :> Num(1)) @@ ("c" :> Num(9))) EXCEPT !.acc["c"] = "get"]

SetHeaps ==
  { << PlainObj(<<"t">>, "t" :> Ref(2)), TargetObj, ValObj >>,
    << PlainObj(<<"t">>, "t" :> Ref(2)), PlainArr(<<Num(2), Num(1)>>), ValObj >>,
    << PlainObj(<<"t">>, "t" :> Num(0)), PlainObj(<<"k">>, "k" :> Num(1)), ValObj >>,
    << PlainObj(<<"t">>, "t" :> Num(0)), PlainArr(<<Num(2), Num(1)>>), ValObj >>,
    << PlainObj(<<"t">>, "t" :> Num(0)),
       [PlainObj(<<"k">>, "k" :> Num(1)) EXCEPT !.isVue = TRUE], ValObj >> }

SetKeys == {StrKey(k) : k \in {"k", "n", "c", "t"}} \cup {IdxKey(i) : i \in 0..(MaxLen - 1)}

\* vm.$watch('t', cb)
PTarget == Prog(<<OpGet(<<"t">>)>>, <<>>, FALSE, FALSE, FALSE, TRUE)

InitSet ==
  \E h \in SetHeaps :
    InitFrom(Construct(Boot(h, TRUE), [i \in 1..MaxWatchers |-> PTarget], 1))

NextSet ==
  \/ \E o \in {RootId, TargetId} : \E key \in SetKeys \ {StrKey("t")} :
       \E v \in {Num(7), Ref(3)} : ~waiting /\ SetCall(o, key, v)
  \/ \E o \in {RootId, TargetId} : \E key \in SetKeys : ~waiting /\ DelCall(o, key)
  \/ TimerFire
  \/ FlushStep
  \/ FlushEnd

SpecSet == InitSet /\ [][NextSet]_vars

\* The step is a call of set / of del by a handler.
SetStep == pc = "idle" /\ pc' = "idle" /\ g'.act = "set" /\ g' # g
DelStep == pc = "idle" /\ pc' = "idle" /\ g'.act = "del" /\ g' # g

Max(a, b) == IF a > b THEN a ELSE b

\* target[key] read by code that is no unit's getter
ValueAt(h, key) ==
  IF key.idx THEN (IF key.i < Len(h.items) THEN h.items[key.i + 1] ELSE Undef)
  ELSE IF key.k \in DOMAIN h.val THEN h.val[key.k] ELSE Undef

\* The key or index exists in the target.
HasKey(h, key) == IF key.idx THEN key.i < Len(h.items) ELSE key.k \in DOMAIN h.val

\* What C11 says of a call set(o, key, val) that leads from heap h1 to heap h2 with
\* the notify() calls notes and the result r.  With exact = FALSE the case of an
\* existing accessor without a setter is as the code has it: nothing changes.
SetContract(h1, h2, o, key, val, notes, r, exact) ==
  /\ r = val
  /\ (h1[o].kind = "arr" /\ h1[o].ob) =>
       /\ Len(h2[o].items) = Max(Len(h1[o].items), key.i + 1)
       /\ \A j \in 1..Len(h2[o].items) :
            h2[o].items[j] = IF j = key.i + 1 THEN val
                             ELSE IF j <= Len(h1[o].items) THEN h1[o].items[j] ELSE Undef
       /\ Reactive(h2, val)
       /\ notes = <<h1[o].obDep>>
  /\ (h1[o].kind = "obj" /\ HasKey(h1[o], key)) =>
       /\ h1[o].obDep \notin Range(notes)
       /\ IF ~exact /\ h1[o].acc[key.k] = "get"
          THEN h2 = h1 /\ notes = <<>>
          ELSE /\ ValueAt(h2[o], key) = val
               /\ notes = IF h1[o].pdep[key.k] >= 0 /\ h1[o].val[key.k] # val
                          THEN <<h1[o].pdep[key.k]>> ELSE <<>>
  /\ (h1[o].kind = "obj" /\ h1[o].ob /\ ~Rooted(h1[o]) /\ ~HasKey(h1[o], key)) =>
       /\ ValueAt(h2[o], key) = val
       /\ h2[o].pdep[key.k] >= 0
       /\ Reactive(h2, val)
       /\ notes = <<h1[o].obDep>>

\* C11 as claimed: set replaces an array element through the patched splice (one
\* notify() on the array's Dep, val reactive, length extended), assigns an existing key
\* through its setter without notifying the object's Dep, defines a reactive property
\* for an absent key of a reactive non-root object and notifies its Dep once; it
\* returns val, and in every case target[key] then reads val.
C11_SetAsClaimed ==
  [][SetStep => SetContract(heap, heap', g'.arg[1], g'.arg[2], g'.arg[3], g'.notes, ret',
                            TRUE)]_vars

\* C11 as amended: the same, except that for an existing accessor property without a
\* setter the assignment changes nothing and notifies nobody, so that target[key]
\* still reads the getter's value.
C11_Set ==
  [][SetStep => SetContract(heap, heap', g'.arg[1], g'.arg[2], g'.arg[3], g'.notes, ret',
                            FALSE)]_vars

\* C11 happens: set(target, 'n', o3) on the watched reactive object defined the
\* property, made o3 reactive, notified the object's Dep and updated the unit.
C11_Witness ==
  /\ g.act = "set"
  /\ g.arg = <<TargetId, StrKey("n"), Ref(3)>>
  /\ heap[TargetId].ob
  /\ heap[TargetId].val["n"] = Ref(3) /\ heap[TargetId].pdep["n"] >= 0
  /\ heap[3].ob
  /\ g.notes = <<heap[TargetId].obDep>>
  /\ g.updates # <<>>

\* C12: del(target, key) notifies the target's structural Dep only if the key or index
\* existed before the call and the target is reactive; when the key did not exist
\* nothing is notified and the target is unchanged.
C12_DelPrecision ==
  [][DelStep =>
       /\ (g'.notes # <<>>) =>
            HasKey(heap[g'.arg[1]], g'.arg[2]) /\ heap[g'.arg[1]].ob
       /\ ~HasKey(heap[g'.arg[1]], g'.arg[2]) => g'.notes = <<>> /\ heap' = heap]_vars

\* C12 on objects alone, where del tests hasOwn before it deletes and notifies.
C12_DelPrecisionObjects ==
  [][DelStep /\ heap[g'.arg[1]].kind = "obj" =>
       /\ (g'.notes # <<>>) =>
            HasKey(heap[g'.arg[1]], g'.arg[2]) /\ heap[g'.arg[1]].ob
       /\ ~HasKey(heap[g'.arg[1]], g'.arg[2]) => g'.notes = <<>> /\ heap' = heap]_vars

\* The failing call: del(arr, i) with i >= arr.length on a reactive array left the
\* array as it was and notified its Dep.
C12_AbsentIndexNotified ==
  /\ g.act = "del"
  /\ heap[g.arg[1]].kind = "arr" /\ heap[g.arg[1]].ob
  /\ g.arg[2].i >= Len(heap[g.arg[1]].items)
  /\ heap[g.arg[1]].items = <<Num(2), Num(1)>>
  /\ g.notes = <<heap[g.arg[1]].obDep>>

\* The target is an owner instance, or the root data object of an initialised one.
OnRoot(h) == h.isVue \/ (h.ob /\ h.vmCount > 0)

\* C13: set() of an absent key on an owner instance or on root data reports a warning,
\* returns val without throwing, notifies no Dep and queues no unit; del() on such a
\* target likewise warns and notifies nobody.
C13_RootedFailsSilently ==
  [][/\ (SetStep /\ OnRoot(heap[g'.arg[1]]) /\ ~HasKey(heap[g'.arg[1]], g'.arg[2])) =>
          /\ g'.warns = <<"Avoid adding reactive properties">>
          /\ ret' = g'.arg[3]
          /\ g'.notes = <<>> /\ g'.updates = <<>>
          /\ subs' = subs /\ queue' = queue
     /\ (DelStep /\ OnRoot(heap[g'.arg[1]])) =>
          /\ g'.warns = <<"Avoid deleting properties">>
          /\ ret' = Undef
          /\ g'.notes = <<>> /\ g'.updates = <<>>
          /\ subs' = subs /\ queue' = queue]_vars

\* C13 happens: set(data, 'n', 7) on the root data of the instance warned and returned 7.
C13_Witness ==
  /\ g.act = "set"
  /\ g.arg = <<RootId, StrKey("n"), Num(7)>>
  /\ heap[RootId].ob /\ heap[RootId].vmCount > 0
  /\ g.warns = <<"Avoid adding reactive properties">>
  /\ g.notes = <<>>
  /\ ret = Num(7)

\* C14 as claimed: set() of an absent key on a rooted target reports a diagnostic and
\* still proceeds, so that after the call the key is present and holds the value.
C14_ProceedsAsClaimed ==
  [][(SetStep /\ OnRoot(heap[g'.arg[1]]) /\ ~HasKey(heap[g'.arg[1]], g'.arg[2])) =>
       /\ g'.warns # <<>>
       /\ HasKey(heap'[g'.arg[1]], g'.arg[2])
       /\ ValueAt(heap'[g'.arg[1]], g'.arg[2]) = g'.arg[3]]_vars

\* C14 as amended: set() of an absent key on a rooted target reports a diagnostic and
\* does not proceed: the key stays absent and no object changes.
C14_DoesNotProceed ==
  [][(SetStep /\ OnRoot(heap[g'.arg[1]]) /\ ~HasKey(heap[g'.arg[1]], g'.arg[2])) =>
       /\ g'.warns # <<>>
       /\ ~HasKey(heap'[g'.arg[1]], g'.arg[2])
       /\ heap' = heap]_vars

\* C14 happens: set(vm, 'n', o3) on an owner instance warned and left 'n' absent.
C14_Witness ==
  /\ g.act = "set"
  /\ g.arg = <<TargetId, StrKey("n"), Ref(3)>>
  /\ heap[TargetId].isVue
  /\ g.warns # <<>>
  /\ "n" \notin DOMAIN heap[TargetId].val
  /\ ~heap[3].ob

(***************************************************************************)
(* SpecTeardown: watchers of a and b, batched and synchronous, some with a *)
(* callback that unwatches watcher 2; handlers write, unwatch and destroy. *)
(***************************************************************************)
\* un2 is what vm.$watch returned for watcher 2: vm.$watch('a', () => un2())
PKill == Prog(<<OpGet(<<"a">>)>>, <<OpUnwatch(2)>>, FALSE, FALSE, FALSE, TRUE)
\* vm.$watch('a', () => un2(), {sync: true})
PKillSync == Prog(<<OpGet(<<"a">>)>>, <<OpUnwatch(2)>>, FALSE, TRUE, FALSE, TRUE)
TeardownPrograms == {PKill, PKillSync, PBoth}

InitTeardown ==
  \E ps \in [1..MaxWatchers -> TeardownPrograms] :
    InitFrom(Construct(Boot(DataHeap, TRUE), ps, 1))

NextTeardown ==
  \/ \E k \in {"a", "b"} : \E v \in {Num(0), Num(1)} : ~waiting /\ Write(<<k>>, v)
  \/ \E w \in 1..MaxWatchers : Unwatch(w)
  \/ Destroy
  \/ TimerFire
  \/ FlushStep
  \/ FlushEnd

SpecTeardown == InitTeardown /\ [][NextTeardown]_vars

\* The step is a call of the function $watch returned / of $destroy by a handler.
TeardownStep == pc = "idle" /\ pc' = "idle" /\ g'.act = "teardown" /\ g' # g
DestroyStep == pc = "idle" /\ pc' = "idle" /\ g'.act = "destroy" /\ g' # g

\* Watcher w is subscribed to none of the Deps in its deps list.
Unsubscribed(w) == \A i \in DOMAIN ws[w].deps : w \notin Range(subs[ws[w].deps[i]])

\* C15: teardown() of an active watcher removes it from the subs of every Dep in its
\* deps (and touches no other subscription), removes it from vm._watchers unless the
\* owner is being destroyed, and sets active = false; teardown() of an inactive
\* watcher changes nothing.
C15_Teardown ==
  /\ [](\A w \in WIds : ~ws[w].active => Teardown(Cur, w) = Cur)
  /\ [][/\ (TeardownStep /\ ws[g'.arg[1]].active) =>
              /\ ~vm.isBeingDestroyed
              /\ subs' = [d \in DOMAIN subs |->
                            IF d \in Range(ws[g'.arg[1]].deps)
                            THEN Remove(subs[d], g'.arg[1]) ELSE subs[d]]
              /\ \A d \in Range(ws[g'.arg[1]].deps) : g'.arg[1] \notin Range(subs'[d])
              /\ vm' = [vm EXCEPT !.watchers = Remove(@, g'.arg[1])]
              /\ g'.arg[1] \notin Range(vm'.watchers)
              /\ ws' = [ws EXCEPT ![g'.arg[1]].active = FALSE]
        /\ (TeardownStep /\ ~ws[g'.arg[1]].active) =>
              /\ subs' = subs /\ vm' = vm /\ ws' = ws
        /\ (DestroyStep /\ ~vm.isBeingDestroyed) =>
              /\ vm' = [vm EXCEPT !.isBeingDestroyed = TRUE]
              /\ \A w \in WIds :
                   /\ ~ws'[w].active
                   /\ \A d \in Range(ws[w].deps) : w \notin Range(subs'[d])]_vars

\* C15 happens: the handler unwatched watcher 2, which had two Deps; it is inactive,
\* subscribed nowhere and out of vm._watchers, while watcher 1 is still subscribed.
C15_Witness ==
  /\ g.act = "teardown" /\ g.arg = <<2>>
  /\ ~ws[2].active
  /\ Len(ws[2].deps) = 2
  /\ Unsubscribed(2)
  /\ vm.watchers = <<1>>
  /\ ws[1].active /\ ~Unsubscribed(1)

\* C16: a run() that starts once the watcher is inactive invokes neither the getter
\* nor the callback and changes no state: in every state run() of an inactive watcher
\* returns the state it was given, and after any run() of an inactive watcher, whether
\* the flush reached it in the queue or a notify() reached it synchronously, no
\* getter invocation and no callback of that watcher follows.
C16_Cancelled ==
  /\ \A w \in WIds : ~ws[w].active => Run(Cur, w) = [Cur EXCEPT !.g = RunLog(Cur, w)]
  /\ \A i \in DOMAIN g.dead :
       /\ \A j \in (g.dead[i][2] + 1)..Len(g.evals) : g.evals[j] # g.dead[i][1]
       /\ \A j \in (g.dead[i][3] + 1)..Len(g.cbs) : g.cbs[j][1] # g.dead[i][1]

\* C16 happens: the watcher was queued when it was torn down, and the flush reached it.
C16_Witness ==
  /\ g.act = "flush"
  /\ g.dead # <<>>
  /\ g.dead[1][1] \in Range(g.start)
  /\ g.dead[1][1] \in Range(g.runs)
  /\ g.dead[1][1] \notin Range(g.evals)

\* C16 happens on the synchronous path: within one write the callback of watcher 1
\* unwatched watcher 2, and notify() then called update() and run() of watcher 2.
C16_WitnessSync ==
  /\ g.act = "write"
  /\ g.dead # <<>>
  /\ g.dead[1][1] = 2
  /\ g.cbs # <<>> /\ g.cbs[1][1] = 1
  /\ 2 \in Range(g.updates)

(***************************************************************************)
(* SpecThrow: watchers whose getter reads b, throws when a is falsy, then  *)
(* reads cond; user and internal, batched and synchronous; with and        *)
(* without a console.                                                      *)
(***************************************************************************)
ThrowingGetter == <<OpGet(<<"b">>), OpAssert(<<"a">>), OpGet(<<"cond">>)>>
\* vm.$watch(function () { ... }, cb)
PThrowUser == Prog(ThrowingGetter, <<>>, FALSE, FALSE, FALSE, TRUE)
\* vm.$watch(function () { ... }, cb, {sync: true})
PThrowUserSync == Prog(ThrowingGetter, <<>>, FALSE, TRUE, FALSE, TRUE)
\* new Watcher(vm, function () { ... }, noop)
PThrowInternal == Prog(ThrowingGetter, <<>>, FALSE, FALSE, FALSE, FALSE)
\* new Watcher(vm, function () { ... }, noop, {sync: true})
PThrowInternalSync == Prog(ThrowingGetter, <<>>, FALSE, TRUE, FALSE, FALSE)
ThrowPrograms == {PThrowUser, PThrowUserSync, PThrowInternal, PThrowInternalSync, PBoth}

InitThrow ==
  \E br \in BOOLEAN : \E ps \in [1..MaxWatchers -> ThrowPrograms] :
    InitFrom(Construct([Boot(DataHeap, TRUE) EXCEPT !.inBrowser = br], ps, 1))

NextThrow ==
  \/ \E k \in Range(DataKeys) : \E v \in {Num(0), Num(1)} : ~waiting /\ Write(<<k>>, v)
  \/ TimerFire
  \/ FlushStep
  \/ FlushEnd

SpecThrow == InitThrow /\ [][NextThrow]_vars

\* The first step of the getter of w that throws in the current state (0: none).
FirstThrow(w) ==
  IF \E i \in DOMAIN ws[w].getter :
       ws[w].getter[i].op = "assert" /\ ~Truthy(heap[RootId].val[ws[w].getter[i].p[1]])
  THEN CHOOSE i \in DOMAIN ws[w].getter :
         /\ ws[w].getter[i].op = "assert" /\ ~Truthy(heap[RootId].val[ws[w].getter[i].p[1]])
         /\ \A j \in 1..(i - 1) :
              ~(ws[w].getter[j].op = "assert"
                /\ ~Truthy(heap[RootId].val[ws[w].getter[j].p[1]]))
  ELSE 0

\* What C17 says of the state r in which get() of watcher w exits, when its getter
\* threw; with anyEnv = FALSE the user case is as the code has it where logError has
\* no console and throws the error again.
ThrowContract(r, w, anyEnv) ==
  /\ r.g.evals = Append(g.evals, w)
  /\ IF ws[w].user
     THEN /\ r.g.errs = Append(g.errs, <<w, "getter">>)
          /\ IF anyEnv \/ inBrowser THEN ~r.exc /\ r.ret = Undef ELSE r.exc
     ELSE r.exc /\ r.g.errs = g.errs
  /\ r.stack = stack /\ r.target = target
  /\ r.ws[w].newDeps = <<>> /\ r.ws[w].newDepIds = {}
  /\ r.ws[w].depIds = {heap[RootId].pdep[ws[w].getter[i].p[1]] : i \in 1..FirstThrow(w)}
  /\ Range(r.ws[w].deps) = r.ws[w].depIds
  /\ \A d \in DOMAIN r.subs : (w \in Range(r.subs[d])) = (d \in r.ws[w].depIds)

C17_WitnessInternal ==
  /\ pc = "idle"
  /\ ~ws[1].user /\ FirstThrow(1) > 0
  /\ g.errs = <<<<0, "nextTick">>>>
  /\ flushing /\ waiting
  /\ stack = <<>> /\ target = 0

(***************************************************************************)
(* SpecPath: data {a: {a: 0, b: 1}, b: 0}; a handler watches one path, a   *)
(* string of at most MaxPath characters; handlers write a and b.           *)
(***************************************************************************)
\* 'a', 'b', '.', '$', '_', '0', and the disallowed ' ' and '['
PathChars == {97, 98, 46, 36, 95, 48, 32, 91}

Paths == UNION {[1..n -> PathChars] : n \in 0..MaxPath}

PathHeap ==
  <<PlainObj(<<"a", "b">>, ("a" :> Ref(2)) @@ ("b" :> Num(0))),
    PlainObj(<<"a", "b">>, ("a" :> Num(0)) @@ ("b" :> Num(1)))>>

InitPath == InitFrom(Construct(Boot(PathHeap, TRUE), <<>>, 1))

NextPath ==
  \/ \E path \in Paths : WatchPath(path)
  \/ \E v \in {Num(0), Ref(2)} : ~waiting /\ Write(<<"a">>, v)
  \/ \E v \in {Num(0), Num(1)} : ~waiting /\ Write(<<"b">>, v)
  \/ TimerFire
  \/ FlushStep
  \/ FlushEnd

SpecPath == InitPath /\ [][NextPath]_vars

\* The step is a call of $watch with a path by a handler.
WatchStep == pc = "idle" /\ pc' = "idle" /\ g'.act = "watch" /\ g' # g

\* The value reached from v by the keys p[i..]: undefined once a value is falsy.
RECURSIVE Follow(_, _, _, _)
Follow(h, v, p, i) ==
  IF i > Len(p) THEN v
  ELSE IF ~Truthy(v) THEN Undef
  ELSE IF v.t = "ref" /\ p[i] \in DOMAIN h[v.v].val THEN Follow(h, h[v.v].val[p[i]], p, i + 1)
  ELSE Follow(h, Undef, p, i + 1)

\* The path has a character that is no letter, digit, '.', '$' or '_'.
Disallowed(path) ==
  \E i \in DOMAIN path :
    /\ ~UnicodeLetter(path[i])
    /\ path[i] \notin (48..57) \cup {46, 36, 95}

\* C18: constructing a watcher with a path that has a disallowed character does not
\* throw; the getter is a no-op, a warning is reported, the value is undefined and
\* the watcher has no dependency.  For a valid path the getter returns the value
\* reached by following the segments, undefined once an intermediate value is falsy.
C18_Path ==
  /\ [][WatchStep =>
          /\ ~exc' /\ "Uncaught" \notin Range(g'.warns)
          /\ Len(ws') = 1 /\ vm'.watchers = <<1>>
          /\ IF Disallowed(g'.arg[1])
             THEN /\ ws'[1].getter = <<>>
                  /\ g'.warns = <<"Failed watching path">>
                  /\ ws'[1].value = Undef
                  /\ ws'[1].deps = <<>> /\ ws'[1].depIds = {}
                  /\ subs' = subs
                  /\ g'.evals = <<1>>
             ELSE /\ g'.warns = <<>>
                  /\ ws'[1].value = Follow(heap, Ref(RootId), Segments(g'.arg[1]), 1)]_vars
  /\ [](\A w \in WIds :
          ws[w].getter # <<>> =>
            Get(Cur, w).ret = Follow(heap, Ref(RootId), ws[w].getter[1].p, 1))

\* C18 happens: $watch('a[') warned and made a watcher that reads nothing.
C18_Witness ==
  /\ g.act = "watch" /\ g.arg = <<<<97, 91>>>>
  /\ g.warns = <<"Failed watching path">>
  /\ ws[1].getter = <<>> /\ ws[1].value = Undef /\ ws[1].deps = <<>>
  /\ ~exc

\* A valid path through a falsy intermediate value: $watch('b.a') while b is 0.
C18_WitnessFalsy ==
  /\ g.act = "watch" /\ g.arg = <<<<98, 46, 97>>>>
  /\ heap[RootId].val["b"] = Num(0)
  /\ ws[1].getter = <<OpGet(<<"b", "a">>)>>
  /\ ws[1].value = Undef
  /\ ws[1].depIds = {heap[RootId].pdep["b"]}

(***************************************************************************)
(* SpecObserve: data {t: 0} and, not yet reactive, objects that contain    *)
(* themselves: directly, through an array, through a shared child.         *)
(***************************************************************************)
ObserveHeaps ==
  { <<PlainObj(<<"t">>, "t" :> Num(0)),
      PlainObj(<<"self", "n">>, ("self" :> Ref(2)) @@ ("n" :> Num(1)))>>,
    <<PlainObj(<<"t">>, "t" :> Num(0)),
      PlainObj(<<"next">>, "next" :> Ref(3)),
      PlainArr(<<Ref(2), Ref(4)>>),
      PlainObj(<<"up">>, "up" :> Ref(3))>>,
    <<PlainObj(<<"t">>, "t" :> Num(0)),
      PlainObj(<<"p", "q">>, ("p" :> Ref(3)) @@ ("q" :> Ref(3))),
      PlainObj(<<"back">>, "back" :> Ref(2))>> }

InitObserve ==
  \E h \in ObserveHeaps : InitFrom(Construct(Boot(h, TRUE), <<PTarget>>, 1))

NextObserve ==
  \/ \E o \in DOMAIN heap : \E asRoot \in BOOLEAN : ObserveCall(o, asRoot)
  \/ \E v \in {Num(0), Ref(2)} : ~waiting /\ Write(<<"t">>, v)
  \/ TimerFire
  \/ FlushStep
  \/ FlushEnd

SpecObserve == InitObserve /\ [][NextObserve]_vars

\* The step is a call of observe.
ObserveStep == pc = "idle" /\ pc' = "idle" /\ g'.act = "observe" /\ g' # g

\* The objects a set of objects refers to, through properties and array items.
Refs(h, objs) ==
  UNION {{h[o].val[k].v : k \in {x \in DOMAIN h[o].val : IsObject(h[o].val[x])}}
         \cup {h[o].items[i].v : i \in {x \in DOMAIN h[o].items : IsObject(h[o].items[x])}}
         : o \in objs}

\* The object graph of o: every object reachable from it.
RECURSIVE Graph(_, _)
Graph(h, objs) == IF Refs(h, objs) \subseteq objs THEN objs ELSE Graph(h, objs \cup Refs(h, objs))

\* The Deps of the heap: one for each container, one for each reactive property.
DepsOf(h) ==
  {h[o].obDep : o \in {x \in DOMAIN h : h[x].ob}}
  \cup UNION {{h[o].pdep[k] : k \in {x \in DOMAIN h[o].pdep : h[o].pdep[x] >= 0}}
              : o \in DOMAIN h}

\* C19 as claimed: observe(value, asRootData) on a value that has a container creates
\* no container and no Dep, redefines no property and changes no state of the
\* container, which stays the value's own __ob__.
C19_IdempotentAsClaimed ==
  [][(ObserveStep /\ heap[g'.arg[1]].ob) =>
       /\ heap' = heap
       /\ depUid' = depUid /\ subs' = subs]_vars

\* C19 as amended: the same, except that with asRootData the container's vmCount is
\* incremented.
C19_Idempotent ==
  [][(ObserveStep /\ heap[g'.arg[1]].ob) =>
       /\ heap' = [heap EXCEPT ![g'.arg[1]].vmCount = @ + (IF g'.arg[2] THEN 1 ELSE 0)]
       /\ heap'[g'.arg[1]].ob /\ heap'[g'.arg[1]].obDep = heap[g'.arg[1]].obDep
       /\ depUid' = depUid /\ subs' = subs]_vars

\* C19 happens: observe(o2, true) on the reactive o2 left its container and Deps as
\* they were and counted one more owner.
C19_Witness ==
  /\ g.act = "observe" /\ g.arg = <<2, TRUE>>
  /\ heap[2].ob /\ heap[2].vmCount = 2
  /\ depUid = Cardinality(DepsOf(heap))

\* C20: observe of an object that is not yet reactive returns, whatever cycles its
\* graph has; afterwards every object of the graph has a container, the containers
\* and the property Deps are all different, and the step made exactly one Dep for each
\* object it wrapped and one for each of its properties, so none was wrapped twice;
\* a property that points back holds the container made before the children were
\* visited.
C20_Cyclic ==
  [][(ObserveStep /\ ~heap[g'.arg[1]].ob) =>
       /\ \A o \in Graph(heap, {g'.arg[1]}) :
            /\ heap'[o].ob
            /\ heap'[o].items = heap[o].items
            /\ heap'[o].keys = heap[o].keys
            /\ \A k \in DOMAIN heap'[o].val :
                 /\ heap'[o].val[k] = heap[o].val[k]
                 /\ heap'[o].pdep[k] >= 0
                 /\ heap'[o].child[k] =
                      IF IsObject(heap[o].val[k]) THEN heap[o].val[k].v ELSE 0
       /\ \A o, x \in {y \in DOMAIN heap' : heap'[y].ob} :
            heap'[o].obDep = heap'[x].obDep => o = x
       /\ depUid' = Cardinality(DepsOf(heap'))
       /\ depUid' - depUid =
            Cardinality({o \in Graph(heap, {g'.arg[1]}) : ~heap[o].ob})
            + Cardinality({<<o, k>> \in Graph(heap, {g'.arg[1]}) \X {"self", "n", "next",
                                                                   "up", "p", "q", "back"} :
                             ~heap[o].ob /\ k \in DOMAIN heap[o].val})
       /\ \A o \in DOMAIN heap : o \notin Graph(heap, {g'.arg[1]}) => heap'[o] = heap[o]]_vars

\* C20 happens: observe(o2) on {next: [o2, {up: the array}]} wrapped the object, the
\* array and the inner object once each.
C20_Witness ==
  /\ g.act = "observe" /\ g.arg = <<2, FALSE>>
  /\ Len(heap) = 4
  /\ heap[2].ob /\ heap[3].ob /\ heap[4].ob
  /\ heap[2].child["next"] = 3 /\ heap[4].child["up"] = 3
  /\ heap[2].obDep < heap[3].obDep /\ heap[3].obDep < heap[4].obDep
  /\ depUid = Cardinality(DepsOf(heap))

(***************************************************************************)
(* SpecComputed: the owner with data {cond, a, b}; its computed properties *)
(* are defined first (over the data, or over the computed property defined *)
(* before), then a unit that reads the last computed property.  Handlers   *)
(* write the data and read the computed properties.                        *)
(***************************************************************************)
\* computed: { k () { return this.cond ? this.a : this.b } }
PLazyCond == Prog(<<OpCond(<<"cond">>, <<"a">>, <<"b">>)>>, <<>>, TRUE, FALSE, FALSE, FALSE)
\* computed: { k2 () { return this.k } }, over the computed property of watcher c
PLazyOver(c) == Prog(<<OpComputed(c)>>, <<>>, TRUE, FALSE, FALSE, FALSE)
\* a render-like unit that reads the computed property of watcher c
PReader(c) == Prog(<<OpComputed(c)>>, <<>>, FALSE, FALSE, FALSE, FALSE)
\* vm.$watch('k', cb, {sync: true})
PReaderSync(c) == Prog(<<OpComputed(c)>>, <<>>, FALSE, TRUE, FALSE, TRUE)
\* vm.$watch(function () { this.cond; return this.k }, cb, {sync: true})
PReaderMixed(c) == Prog(<<OpGet(<<"cond">>), OpComputed(c)>>, <<>>, FALSE, TRUE, FALSE, TRUE)

\* The options of the next watcher, given the watchers constructed so far.
ComputedPrograms(W) ==
  IF W = <<>> THEN {PLazyCond, PLazyB}
  ELSE IF ~W[Len(W)].lazy THEN {}
  ELSE {PReader(Len(W)), PReaderSync(Len(W)), PReaderMixed(Len(W))}
       \cup (IF Len(W) < MaxWatchers THEN {PLazyOver(Len(W))} ELSE {})

InitComputed == InitFrom(Construct(Boot(DataHeap, TRUE), <<>>, 1))

NextComputed ==
  \/ \E p \in ComputedPrograms(ws) : NewUnit(p)
  \/ \E w \in WIds : ReadComputed(w)
  \/ \E k \in Range(DataKeys) : \E v \in {Num(0), Num(1)} : ~waiting /\ Write(<<k>>, v)
  \/ TimerFire
  \/ FlushStep
  \/ FlushEnd

SpecComputed == InitComputed /\ [][NextComputed]_vars

\* The step is the construction of a watcher / a read of a computed property by a handler.
NewStep == pc = "idle" /\ pc' = "idle" /\ g'.act = "new" /\ g' # g
ReadStep == pc = "idle" /\ pc' = "idle" /\ g'.act = "read" /\ g' # g

\* The getter invocations the step adds to the log (a step of a flush extends the log
\* of the flush, any other step begins a log).
StepEvals == IF pc = "flush" THEN SubSeq(g'.evals, Len(g.evals) + 1, Len(g'.evals)) ELSE g'.evals
StepUpdates ==
  IF pc = "flush" THEN SubSeq(g'.updates, Len(g.updates) + 1, Len(g'.updates)) ELSE g'.updates

\* A lazy unit is never handed to the scheduler; its getter has run once for each read
\* that found it dirty and for nothing else; update() sets dirty and does nothing more.
C21_State ==
  \A w \in WIds : ws[w].lazy =>
    /\ w \notin Range(queue) /\ w \notin has
    /\ Count(g.evals, w) = Count(g.reads, <<w, TRUE>>)
    /\ Update(Cur, w) = [Cur EXCEPT !.ws[w].dirty = TRUE,
                                    !.g.updates = Append(@, w), !.g.turn = Append(@, w)]

C21_Step ==
  /\ (NewStep /\ g'.arg[1].lazy) =>
        /\ ws' = Append(ws, ws'[Len(ws')])
        /\ ws'[Len(ws')].value = Undef /\ ws'[Len(ws')].dirty
        /\ ws'[Len(ws')].deps = <<>>
        /\ g'.evals = <<>> /\ subs' = subs
  /\ ReadStep =>
        /\ ~ws'[g'.arg[1]].dirty
        /\ ret' = ws'[g'.arg[1]].value
        /\ IF ws[g'.arg[1]].dirty THEN Count(g'.evals, g'.arg[1]) = 1
           ELSE g'.evals = <<>> /\ ws' = ws /\ subs' = subs
  /\ \A w \in WIds : ws[w].lazy =>
        /\ (~ws[w].dirty /\ ws'[w].dirty) => w \in Range(StepUpdates)
        /\ (~ws[w].dirty /\ w \in Range(StepEvals)) => w \in Range(StepUpdates)
        /\ Count(StepEvals, w) <= IF ws[w].dirty THEN 1 ELSE Count(StepUpdates, w)
        /\ (w \in Range(StepUpdates) /\ w \notin Range(StepEvals)) => ws'[w].dirty
        /\ (ChangingWrite(g') /\ pc = "idle" /\ pc' = "idle" /\ g' # g
              /\ RootDep(g'.arg[1][1]) \in ws[w].depIds) => w \in Range(g'.updates)

\* C21 (lazy unit): a lazy unit is not evaluated at construction (value undefined,
\* dirty); a notification from a dependency only sets dirty, running no getter and
\* queueing nothing; a read runs the getter only when the unit is dirty and clears
\* dirty, so a read that follows a read without a notification between them runs the
\* getter zero times, and the read that follows a notification runs it exactly once.
C21_Lazy == []C21_State /\ [][C21_Step]_vars

\* C21 happens: the computed property was evaluated to 1 for its reader; a write then
\* notified it, and the handler's read found it dirty and ran its getter once, to 0.
C21_Witness ==
  /\ g.act = "read" /\ g.arg = <<1>>
  /\ g.reads = <<<<1, TRUE>>>> /\ g.evals = <<1>>
  /\ ~ws[1].dirty /\ ws[1].value = Num(0)
  /\ Len(ws) = 2 /\ ws[2].value = Num(1) /\ 2 \in has

\* The second of two reads with no notification between them ran no getter.
C21_WitnessClean ==
  /\ g.act = "read" /\ g.arg = <<1>>
  /\ g.reads = <<<<1, FALSE>>>> /\ g.evals = <<>>
  /\ ws[1].deps # <<>>

\* The getter of unit r reads the computed property whose watcher is c.
ReadsComputed(r, c) == \E i \in DOMAIN ws[r].getter : ws[r].getter[i] = OpComputed(c)

\* Whenever a computed property is read with unit r as the current reader, r is then
\* in the pending set and in the subscriber list of every Dep of the computed unit.
C22_State ==
  \A r \in WIds : \A c \in WIds :
    (ws[c].lazy /\ r # c /\ ReadsComputed(r, c)) =>
      \A d \in ComputedGetter(PushTarget(Cur, r), c).ws[c].depIds :
        /\ d \in ComputedGetter(PushTarget(Cur, r), c).ws[r].newDepIds
        /\ r \in Range(ComputedGetter(PushTarget(Cur, r), c).subs[d])

\* When an evaluation of a reader has completed, the reader depends on and is
\* subscribed to every Dep of the computed units it read; it stays subscribed until
\* its next evaluation; and a write that changes a property updates the subscribers
\* of the property's Dep: a batched reader is queued, a synchronous one is run.
C22_Step ==
  \A r \in WIds : ~ws[r].lazy =>
    /\ r \in Range(StepEvals) =>
         \A c \in WIds : ReadsComputed(r, c) =>
           \A d \in ws'[c].depIds : d \in ws'[r].depIds /\ r \in Range(subs'[d])
    /\ r \notin Range(StepEvals) =>
         \A d \in DOMAIN subs : r \in Range(subs[d]) => r \in Range(subs'[d])
    /\ (ChangingWrite(g') /\ pc = "idle" /\ pc' = "idle" /\ g' # g
          /\ r \in Range(subs[RootDep(g'.arg[1][1])])) =>
         /\ r \in Range(g'.updates)
         /\ IF ws[r].sync THEN r \in Range(g'.evals) ELSE r \in has'

C22_WitnessEarlyReader ==
  /\ g.act = "read"
  /\ Len(ws) = 2 /\ ws[2].sync /\ 2 \notin has /\ ~ws[1].dirty
  /\ RootDep("b") \in ws[1].depIds
  /\ RootDep("b") \notin ws[2].depIds

(***************************************************************************)
(* SpecExact: watchers whose dependencies change from one evaluation to    *)
(* the next, whose getter throws or reads a property twice, and a          *)
(* synchronous watcher whose getter writes the property it has read, so    *)
(* that its update() runs it again while its get() is in progress.         *)
(***************************************************************************)
\* vm.$watch(function () { const v = this.a; this.a = 1; return v }, cb, {sync: true})
PSyncFix ==
  Prog(<<OpGet(<<"a">>), OpSet(<<"a">>, Num(1))>>, <<>>, FALSE, TRUE, FALSE, TRUE)
\* vm.$watch(function () { return this.cond ? this.a : this.b }, cb, {sync: true})
PCondSync == Prog(<<OpCond(<<"cond">>, <<"a">>, <<"b">>)>>, <<>>, FALSE, TRUE, FALSE, TRUE)
\* vm.$watch(function () { return this.a + this.a }, cb)
PTwice == Prog(<<OpGet(<<"a">>), OpGet(<<"a">>)>>, <<>>, FALSE, FALSE, FALSE, TRUE)
ExactPrograms == {PSyncFix, PCondSync, PTwice, PThrowUserSync, PThrowInternal}

InitExact ==
  \E ps \in [1..MaxWatchers -> ExactPrograms] :
    InitFrom(Construct(Boot(DataHeap, TRUE), ps, 1))

NextExact ==
  \/ \E k \in Range(DataKeys) : \E v \in {Num(0), Num(1)} : ~waiting /\ Write(<<k>>, v)
  \/ TimerFire
  \/ FlushStep
  \/ FlushEnd

SpecExact == InitExact /\ [][NextExact]_vars

\* When the get() logged as e finished, the watcher's depIds were the Deps read in that
\* get(), its newDepIds were empty, and it was a subscriber of exactly its depIds.
ExactAt(e) == e.depIds = e.reads /\ e.newDepIds = {} /\ e.subs = e.depIds

\* C23 as claimed: whenever a get() finishes, normally or by exception, nested in a
\* get() of the same unit or not, the unit's depIds are exactly the Deps read during
\* that get(), newDepIds is empty, and the unit is in the subs of a Dep if and only if
\* the Dep is in depIds.
C23_Exact == \A i \in DOMAIN g.gets : ExactAt(g.gets[i])

\* C23 for a get() within which no get() of the same unit has finished.
C23_ExactUnnested == \A i \in DOMAIN g.gets : ~g.gets[i].inner => ExactAt(g.gets[i])

\* The failing run: within one assignment a get() of a synchronous watcher read a, a
\* get() of the same watcher ran and finished within it, and the outer get() then
\* finished with empty depIds and removed the watcher from the subs of a.
C23_NestedLosesDeps ==
  /\ g.act = "write"
  /\ \E i \in DOMAIN g.gets :
       /\ g.gets[i].inner
       /\ g.gets[i].reads = {RootDep("a")}
       /\ g.gets[i].depIds = {} /\ g.gets[i].subs = {}
       /\ ws[g.gets[i].w].active /\ ws[g.gets[i].w].depIds = {}
       /\ g.gets[i].w \notin Range(subs[RootDep("a")])

(***************************************************************************)
(* SpecSubs: the watchers of SpecExact that do not throw, a computed       *)
(* property over cond, a and b, and a watcher that reads it.  Handlers     *)
(* write, read the computed property, unwatch and destroy the owner.       *)
(***************************************************************************)
\* The lists of options the owner's watchers are constructed from.
SubsLists ==
  {<<PLazyCond, PReaderMixed(1)>>, <<PLazyCond, PTwice>>, <<PTwice, PSyncFix>>,
   <<PSyncFix, PTwice>>, <<PSyncFix, PSyncFix>>}

InitSubs == \E ps \in SubsLists : InitFrom(Construct(Boot(DataHeap, TRUE), ps, 1))

NextSubs ==
  \/ \E k \in {"cond", "a"} : \E v \in {Num(0), Num(1)} : ~waiting /\ Write(<<k>>, v)
  \/ \E w \in WIds : ~waiting /\ ReadComputed(w)
  \/ \E w \in WIds : ~waiting /\ ~ws[w].lazy /\ Unwatch(w)
  \/ ~waiting /\ Destroy
  \/ TimerFire
  \/ FlushStep
  \/ FlushEnd

SpecSubs == InitSubs /\ [][NextSubs]_vars

\* C24 (subscriber uniqueness): in every reachable state no unit is more than once in
\* the subs of a Dep, and no Dep is more than once in the deps or newDeps of a unit.
C24_Unique ==
  /\ \A d \in DOMAIN subs : \A w \in WIds : Count(subs[d], w) <= 1
  /\ \A w \in WIds : \A d \in DOMAIN subs :
       Count(ws[w].deps, d) <= 1 /\ Count(ws[w].newDeps, d) <= 1

\* C24 happens: in one flush a unit that reads a twice was evaluated again, having
\* been subscribed to a before, and is in the subs of a once, beside another unit.
C24_Witness ==
  /\ g.act = "flushed"
  /\ \E w \in WIds :
       /\ ws[w].getter = PTwice.getter
       /\ w \in Range(g.evals)
       /\ Count(subs[RootDep("a")], w) = 1
       /\ Len(subs[RootDep("a")]) >= 2

(***************************************************************************)
(* SpecScope: an owner whose mounted and updated hooks throw when a is      *)
(* falsy, with and without a console.  Handlers mount it, construct a       *)
(* watcher whose function mounts a child, call $watch with and without      *)
(* immediate, initialise an owner whose data function may throw, read and   *)
(* write.                                                                   *)
(***************************************************************************)
MaxStack == 2

\* a hook, callback or data function: if (!vm.a) throw new Error()
FThrow == <<OpAssert(<<"a">>)>>

ScopeHooks == [NoHooks EXCEPT !.mounted = <<FThrow>>, !.updated = <<FThrow>>]

\* the render watcher: its function reads cond
PRender == Prog(<<OpGet(<<"cond">>)>>, <<>>, FALSE, FALSE, FALSE, FALSE)
\* a watcher whose function reads cond, then creates and mounts a child
PParent == Prog(<<OpGet(<<"cond">>), OpHook("mounted")>>, <<>>, FALSE, FALSE, FALSE, FALSE)
\* vm.$watch(function () { if (!vm.a) throw ...; return vm.cond }, function () { if (!vm.a) throw ... })
PWatchThrow == Prog(<<OpAssert(<<"a">>), OpGet(<<"cond">>)>>, FThrow, FALSE, FALSE, FALSE, TRUE)

InitScope ==
  \E br \in BOOLEAN :
    InitFrom([Boot(DataHeap, TRUE) EXCEPT !.inBrowser = br, !.vm.options = ScopeHooks])

NextScope ==
  \/ Len(stack) < MaxStack /\ Mount(PRender)
  \/ Len(stack) < MaxStack /\ Len(ws) < MaxWatchers /\ NewUnit(PParent)
  \/ \E im \in BOOLEAN :
       Len(stack) < MaxStack /\ Len(ws) < MaxWatchers /\ WatchCall(PWatchThrow, im)
  \/ \E f \in {FThrow, <<OpGet(<<"b">>)>>} : Len(stack) < MaxStack /\ GetDataCall(f)
  \/ ~waiting /\ g.act # "get" /\ Read(<<"b">>)
  \/ \E k \in {"cond", "a"} : \E v \in {Num(0), Num(1)} :
       Len(stack) < MaxStack /\ ~waiting /\ Write(<<k>>, v)
  \/ TimerFire
  \/ FlushStep
  \/ FlushEnd

SpecScope == InitScope /\ [][NextScope]_vars

\* C25 (scoped reader stack): no call of Watcher.get, handleError, getData, callHook
\* or $watch, returning or throwing, changes targetStack or Dep.target: every step,
\* which is a tree of such calls, leaves both as they were.
C25_Scoped == [][stack' = stack /\ target' = target]_vars

\* With a console to report to, so that handleError returns, the calls are scoped.
C25_ScopedConsole == [][inBrowser => stack' = stack /\ target' = target]_vars

\* Without a console Watcher.get, handleError and getData are scoped still: a step
\* that calls no hook and no immediate callback leaves the stack as it was.
C25_ScopedFinally ==
  [][(g'.act \in {"data", "get", "write"}
      \/ (g'.act = "watch" /\ ~g'.arg[2]))
     => stack' = stack /\ target' = target]_vars

\* C25 fails: the mounted hook of a child threw within get() of a watcher, callHook
\* left its entry on the stack, get() popped that entry in place of its own, and the
\* watcher is the current reader in the event loop: a handler that then read vm.b
\* made it a subscriber of b, which its function never reads.
C25_StaleReader ==
  /\ pc = "idle"
  /\ g.act = "get"
  /\ target # 0
  /\ ws[target].getter = PParent.getter
  /\ target \in Range(subs[RootDep("b")])
  /\ stack = <<target>>

\* callHook at the top of the call stack threw and left its entry: no reader is
\* current, the stack is not empty.
C25_LeakedEntry ==
  /\ pc = "idle"
  /\ g.act = "mount"
  /\ stack = <<0>>
  /\ target = 0

(***************************************************************************)
(* SpecTarget: pushTarget, popTarget and reads of vm.a and vm.b, called in  *)
(* any order, MaxCalls times at most, on an owner with two watchers.        *)
(***************************************************************************)
MaxCalls == 4

InitTarget == InitFrom(Construct(Boot(DataHeap, TRUE), <<PCond, PSyncA>>, 1))

NextTarget ==
  \/ \E w \in 0..Len(ws) : Len(g.arg) < MaxCalls /\ PushCall(w)
  \/ Len(g.arg) < MaxCalls /\ PopCall
  \/ \E k \in {"a", "b"} : Len(g.arg) < MaxCalls /\ ReadCall(k)

SpecTarget == InitTarget /\ [][NextTarget]_vars

\* The top of targetStack (0: the stack is empty, or undefined is on top).
Top(st) == IF st = <<>> THEN 0 ELSE Last(st)

C26_Step ==
  LET c == Last(g'.arg)
  IN /\ c.op = "push" => stack' = Append(stack, c.w) /\ target' = c.w
     /\ c.op = "pop" =>
          /\ stack' = SubSeq(stack, 1, Len(stack) - 1)
          /\ target' = Top(stack')
          /\ Len(stack) >= 2 => target' = stack[Len(stack) - 1]
     /\ c.op = "get" /\ target = 0 => subs' = subs /\ ws' = ws
     /\ c.op = "get" /\ target # 0 =>
          /\ RootDep(c.k) \in ws'[target].newDepIds
          /\ target \in Range(subs'[RootDep(c.k)])
          /\ \A w \in WIds \ {target} : ws'[w] = ws[w]
          /\ \A d \in DOMAIN subs : Range(subs'[d]) \subseteq Range(subs[d]) \cup {target}
     /\ stack' = stack \/ c.op \in {"push", "pop"}

\* C26 (current-reader invariant): after any sequence of pushTarget and popTarget
\* calls Dep.target is the top of targetStack, or no reader when the stack is empty;
\* while "no reader" is on top of a reader a read registers no dependency with any
\* unit, a read under a reader registers with that reader alone, and the pop of an
\* entry makes the entry below it current again.
C26_Current == [](target = Top(stack)) /\ [][C26_Step]_vars

\* C26 happens: on top of reader 1 "no reader" was pushed, vm.b was read and
\* registered with no unit, and the pop made reader 1 current again.
C26_Witness ==
  /\ Len(g.arg) = 4
  /\ g.arg[1] = [op |-> "push", w |-> 1, k |-> ""]
  /\ g.arg[2] = [op |-> "push", w |-> 0, k |-> ""]
  /\ g.arg[3] = [op |-> "get", w |-> 0, k |-> "b"]
  /\ g.arg[4].op = "pop"
  /\ target = 1
  /\ stack = <<1>>
  /\ RootDep("b") \notin ws[1].newDepIds
  /\ 1 \notin Range(subs[RootDep("b")])

(***************************************************************************)
(* SpecReset: a mounted owner whose render watcher reads cond and whose     *)
(* beforeUpdate hook throws when b is falsy, with one more watcher: one      *)
(* whose callback writes what it watches, or one whose getter throws when a  *)
(* is falsy (internal or user), or one that only reads; with and without a   *)
(* console.                                                                  *)
(***************************************************************************)
ResetHooks == [NoHooks EXCEPT !.beforeUpdate = <<<<OpAssert(<<"b">>)>>>>]

ResetLists == {<<PSelf>>, <<PThrowInternal>>, <<PThrowUser>>, <<PBoth>>}

InitReset ==
  \E br \in BOOLEAN : \E ps \in ResetLists :
    InitFrom(Construct(MountComponent([Boot(DataHeap, TRUE)
                                       EXCEPT !.inBrowser = br,
                                              !.vm.options = ResetHooks],
                                      PRender),
                       ps, 1))

NextReset ==
  \/ \E k \in Range(DataKeys) : \E v \in {Num(0), Num(1)} : Write(<<k>>, v)
  \/ TimerFire
  \/ FlushStep
  \/ FlushEnd

SpecReset == InitReset /\ [][NextReset]_vars

\* The scheduler's bookkeeping as resetSchedulerState leaves it.
Clean == queue = <<>> /\ has = {} /\ index = 0 /\ ~waiting /\ ~flushing

\* C27 (post-flush reset): whenever flushSchedulerQueue hands control back to its
\* caller, however it ends, the queue and the pending-flag set are empty, index is 0,
\* waiting and flushing are false.
C27_Reset == [][pc = "flush" /\ pc' = "idle" => Clean']_vars

\* A flush that ends by normal completion or by the cycle guard's break, and whose
\* hooks write nothing, hands control back with the bookkeeping reset.
C27_ResetReturn == [][pc = "flush" /\ pc' = "idle" /\ g'.act = "flushed" => Clean']_vars

\* The break of the cycle guard was followed by the reset.
C27_WitnessAbort == pc = "idle" /\ g.act = "flushed" /\ g.abort # 0 /\ Clean

\* C27 fails: run() of an internal unit threw in a flush of two units; control is
\* back in the event loop with the second unit still in the queue and flagged,
\* index on the first, waiting and flushing true.
C27_NotReset ==
  /\ pc = "idle"
  /\ g.act = "flush"
  /\ ws[2].getter = ThrowingGetter /\ ~ws[2].user
  /\ g.runs = <<1, 2>>
  /\ queue = <<1, 2>> /\ has = {} /\ index = 1
  /\ waiting /\ flushing

\* The same after the beforeUpdate hook threw, where there is no console.
C27_NotResetBefore ==
  /\ pc = "idle"
  /\ g.act = "flush"
  /\ g.errs = <<<<0, "beforeUpdate hook">>, <<0, "nextTick">>>>
  /\ g.runs = <<>>
  /\ 1 \in has /\ index = 0
  /\ waiting /\ flushing

(***************************************************************************)
(* SpecHooks: a mounted owner whose render watcher reads cond and whose     *)
(* updated hook writes: b, which a second watcher reads, or cond, which the  *)
(* render watcher reads.                                                     *)
(***************************************************************************)
HookWrites == {<<OpToggle(<<"b">>)>>, <<OpToggle(<<"cond">>)>>,
               <<OpToggle(<<"b">>), OpToggle(<<"cond">>)>>}

InitHooks ==
  \E f \in HookWrites : \E p \in {PBoth, PSyncA} :
    InitFrom(Construct(MountComponent([Boot(DataHeap, TRUE)
                                       EXCEPT !.vm.options.updated = <<f>>],
                                      PRender),
                       <<p>>, 1))

NextHooks ==
  \/ \E k \in Range(DataKeys) : \E v \in {Num(0), Num(1)} : Write(<<k>>, v)
  \/ TimerFire
  \/ FlushStep
  \/ FlushEnd

SpecHooks == InitHooks /\ [][NextHooks]_vars

\* The units queueWatcher pushed since the hook whose call is logged as h.
QueuedSince(gg, h) == SubSeq(gg.queued, h.queued + 1, Len(gg.queued))

C28_Step ==
  \A i \in DOMAIN g'.hooks :
    g'.hooks[i].hook = "updated" /\ i > Len(g.hooks) =>
      /\ g'.hooks[i].queue = <<>> /\ g'.hooks[i].has = {} /\ g'.hooks[i].index = 0
      /\ ~g'.hooks[i].waiting /\ ~g'.hooks[i].flushing
      /\ QueuedSince(g', g'.hooks[i]) # <<>> =>
           /\ queue' = QueuedSince(g', g'.hooks[i])
           /\ has' = Range(queue')
           /\ waiting' /\ ~flushing' /\ index' = 0
           /\ callbacks' = <<"flush">> /\ pending' /\ timers' = timers + 1
           /\ g'.runs = g.runs
           /\ pc' = "idle"

\* C28 (reset precedes post-flush hooks): in every flush the updated hook is called
\* with the scheduler reset, and the units its writes hand to queueWatcher make up a
\* fresh queue, with a new flush scheduled for a later tick, none of them run by the
\* flush that called the hook.
C28_ResetFirst == [][C28_Step]_vars

\* C28 happens: a flush of the render watcher has ended, its updated hook wrote b and
\* the watcher of b waits alone in the queue for the flush just scheduled.
C28_Witness ==
  /\ pc = "idle"
  /\ g.act = "flushed"
  /\ g.start = <<1>> /\ g.runs = <<1>>
  /\ Len(g.hooks) = 2 /\ g.hooks[2].hook = "updated"
  /\ g.queued = <<2>>
  /\ queue = <<2>> /\ waiting /\ timers = 1

\* The flushSchedulerQueue callbacks in the tick queue: pushed by nextTick and not
\* yet called.
Scheduled == Count(callbacks, "flush") + Count(copies, "flush")

\* C29 (one flush per turn): in every reachable state at most one flushSchedulerQueue
\* callback is in the tick queue, and waiting is true exactly when a flush is
\* scheduled or in progress.
C29_OneFlush ==
  /\ Scheduled <= 1
  /\ waiting <=> (Scheduled > 0 \/ pc = "flush")

\* At most one callback is in the tick queue, with one timer armed for it, and
\* waiting is true whenever a flush is scheduled or in its loop.
C29_AtMostOne ==
  /\ Scheduled <= 1
  /\ Scheduled > 0 => timers = 1 /\ pending
  /\ (Scheduled > 0 \/ pc = "flush") => waiting

\* The writes of one turn schedule one flush: the write that finds waiting false and
\* queues a unit pushes the callback, the writes after it push none.
C29_OnePerTurn ==
  [][g'.act = "write" =>
       /\ ~waiting /\ g'.queued # <<>> =>
            callbacks' = <<"flush">> /\ timers' = 1 /\ waiting'
       /\ waiting \/ g'.queued = <<>> =>
            callbacks' = callbacks /\ timers' = timers /\ waiting' = waiting]_vars

\* C29 fails: after a flush that run() left by an exception, a write has handed a
\* unit to queueWatcher; waiting is true, no flush is scheduled and none is in
\* progress.
C29_WaitingNoFlush ==
  /\ pc = "idle"
  /\ g.act = "write"
  /\ g.queued # <<>>
  /\ waiting
  /\ Scheduled = 0 /\ timers = 0

\* Two writes of one turn have queued two units, and one flush is scheduled.
C29_WitnessTurn ==
  /\ pc = "idle"
  /\ g.act = "write" /\ g.writes = 2
  /\ Len(queue) = 2 /\ ~flushing
  /\ callbacks = <<"flush">> /\ timers = 1

(***************************************************************************)
(* SpecLive: SpecReset where the armed timer eventually fires and the flush *)
(* that has begun goes on: the host calls flushCallbacks, and the loop and  *)
(* the end of flushSchedulerQueue are steps of one call.  Fairness is       *)
(* stated on the variables that show each step: where TimerFired is enabled *)
(* only TimerFire changes timers to timers - 1; where FlushStepped or       *)
(* FlushEnded is enabled FlushStep, or FlushEnd, is the only step there is. *)
(***************************************************************************)
TimerFired == pc = "idle" /\ timers > 0 /\ timers' = timers - 1

FlushStepped ==
  /\ pc = "flush" /\ ~aborted /\ index < Len(queue)
  /\ pc' \in {"flush", "idle"} /\ index' \in {index, index + 1} /\ aborted' \in BOOLEAN

FlushEnded == pc = "flush" /\ (aborted \/ index >= Len(queue)) /\ pc' = "idle"

SpecLive ==
  /\ InitReset
  /\ [][NextReset]_vars
  /\ WF_timers(TimerFired)
  /\ WF_<<pc, index, aborted>>(FlushStepped)
  /\ WF_pc(FlushEnded)

\* The units of the owner of SpecReset: the render watcher and one more.
ResetUnits == {1, 2}

\* A flush was left by an exception: control is in the event loop, flushing is true.
Thrown == pc = "idle" /\ flushing

\* C30 (scheduler liveness): the scheduler always returns to idle, and every unit
\* handed to queueWatcher, flagged in has, is eventually taken by a flush, which
\* clears its flag before run(), or dropped by the reset after the cycle guard's
\* break; also when an earlier flush was left by an exception of run().
C30_Live ==
  /\ waiting ~> ~waiting
  /\ \A w \in ResetUnits : (w \in has) ~> (w \notin has)

\* As long as no flush is left by an exception the scheduler returns to idle and
\* every unit queued is taken or dropped.
C30_LiveUnlessThrown ==
  /\ waiting ~> (~waiting \/ Thrown)
  /\ \A w \in ResetUnits : (w \in has) ~> (w \notin has \/ Thrown)

\* C30 fails: a flush was left by an exception of run(); a unit queued by a write
\* after it is flagged and in the queue, no flush is scheduled, no timer is armed,
\* and waiting is true, so that no later queueWatcher call schedules one.
C30_Stuck ==
  /\ Thrown
  /\ inBrowser /\ ~ws[2].user
  /\ g.act = "write"
  /\ 2 \in has /\ 2 \in Range(g.queued)
  /\ 2 \in Range(SubSeq(queue, index + 1, Len(queue)))
  /\ waiting
  /\ Scheduled = 0 /\ timers = 0 /\ copies = <<>>

\* C31 as claimed: from the first queueWatcher of a cycle to the reset that ends the
\* flush, each unit appears at most once in the scheduler queue.
C31_Unique == \A w \in WIds : Count(queue, w) <= 1

\* C31 as amended: until the flush begins each unit is at most once in the queue, and
\* during the flush at most once among the positions not yet run; the positions
\* already run stay in the array, so a unit made stale again is in it once more.
C31_UniquePending ==
  \A w \in WIds :
    /\ ~flushing => Count(queue, w) <= 1
    /\ Count(Pending, w) <= 1

\* C31 happens: in a flush a unit that has run was queued again, and is in the queue
\* at a position already run and at one not yet run.
C31_Witness ==
  /\ pc = "flush" /\ ~aborted
  /\ \E w \in WIds :
       /\ Count(queue, w) = 2
       /\ Count(SubSeq(queue, 1, index), w) = 1
       /\ Count(Pending, w) = 1

\* The identifiers of the sequence are in strictly ascending order.
Ascending(seq) == \A i \in 1..(Len(seq) - 1) : seq[i] < seq[i + 1]

\* The units that one step of the flush has put in the queue.
Inserted == {w \in WIds : Count(queue', w) > Count(queue, w)}

\* One iteration of the flush loop leaves the positions up to the cursor as they were
\* and removes nothing; the units it inserted with an identifier smaller than the
\* current unit's come directly after the cursor, the smallest first.
C32_Step ==
  (pc = "flush" /\ pc' = "flush" /\ index < Len(queue)) =>
    LET cur == queue[index + 1]
        small == {w \in Inserted : w < cur}
    IN /\ SubSeq(queue', 1, index + 1) = SubSeq(queue, 1, index + 1)
       /\ \A w \in WIds : Count(queue', w) >= Count(queue, w)
       /\ small # {} =>
            queue'[index + 2] = CHOOSE w \in small : \A v \in small : w <= v

\* During the flush the positions not yet run are in ascending order of identifier, and
\* every unit that was in the queue when the flush began or was put in it since has run
\* or is at a position not yet run; when the flush has ended without the cycle guard
\* all of them have run, so none was left for a later flush.
C32_Inv ==
  /\ pc = "flush" =>
       /\ Ascending(Pending)
       /\ ~aborted =>
            \A w \in WIds :
              Count(g.runs, w) + Count(Pending, w) = Count(g.start, w) + Count(g.queued, w)
  /\ (g.act = "flushed" /\ g.abort = 0) =>
       \A w \in WIds : Count(g.runs, w) = Count(g.start, w) + Count(g.queued, w)

\* C32 as claimed: every unit made stale during a flush is run in that flush.
C32_RunSameFlush ==
  g.act = "flushed" =>
    \A w \in WIds : Count(g.runs, w) = Count(g.start, w) + Count(g.queued, w)

\* C32 as amended: a unit made stale during the flush is inserted after the cursor at
\* its sorted position among the positions not yet run, which stay in ascending order,
\* and is run in the same flush unless the cycle guard ends the flush first.
C32_InsertOrder == [](C32_Inv) /\ [][C32_Step]_vars

\* C32 happens: the flush began with unit 2 alone, the run of unit 2 made unit 1 stale,
\* unit 1 was inserted after the cursor and has run in the same flush.
C32_Witness ==
  /\ pc = "flush"
  /\ g.start = <<2>>
  /\ Len(g.runs) = 2 /\ g.runs = <<2, 1>>
  /\ Len(g.queued) >= 1 /\ g.queued[1] = 1

(***************************************************************************)
(* SpecNotify: synchronous and batched watchers of a, b and cond; the      *)
(* callback of a synchronous watcher unwatches watcher 2 or writes cond,   *)
(* which makes watcher 2 read, and subscribe to, another property.         *)
(***************************************************************************)
\* vm.$watch('a', () => { this.cond = 1 - this.cond }, {sync: true})
PSyncToCond ==
  Prog(<<OpGet(<<"a">>)>>, <<OpToggle(<<"cond">>)>>, FALSE, TRUE, FALSE, TRUE)
NotifyFixtures ==
  { <<PKillSync, PBoth>>, <<PKillSync, PCondSync>>, <<PSyncToCond, PCondSync>>,
    <<PSyncToCond, PKillSync>>, <<PBoth, PSyncToCond>> }

InitNotify ==
  \E ps \in NotifyFixtures : InitFrom(Construct(Boot(DataHeap, TRUE), ps, 1))

NextNotify ==
  \/ \E k \in {"a", "b", "cond"} : \E v \in {Num(0), Num(1)} : ~waiting /\ Write(<<k>>, v)
  \/ \E w \in WIds : ~waiting /\ Unwatch(w)
  \/ TimerFire
  \/ FlushStep
  \/ FlushEnd

SpecNotify == InitNotify /\ [][NextNotify]_vars

\* C33 (notify snapshot): every notify() that has returned has called update() exactly
\* once on each watcher that was in the Dep's subs when it began and on no other,
\* whatever the update() calls subscribed or unsubscribed meanwhile.
C33_Snapshot ==
  ~exc =>
    \A n \in DOMAIN g.snaps : \A w \in WIds :
      Count(g.snaps[n].calls, w) = Count(g.snaps[n].subs, w)

\* C33 happens: notify() began with watchers 1 and 2 subscribed, update() of watcher 1
\* ran its callback, which unwatched watcher 2, and update() of watcher 2 was called.
C33_Witness ==
  /\ g.act = "write"
  /\ Len(g.snaps) = 1
  /\ g.snaps[1].subs = <<1, 2>>
  /\ g.snaps[1].calls = <<1, 2>>
  /\ 2 \notin Range(subs[g.snaps[1].dep])
  /\ ~ws[2].active

\* C33 happens: during notify() of a Dep that watcher 2 was not subscribed to, the
\* update() of watcher 1 made watcher 2 subscribe to it; notify() did not update it.
C33_WitnessSubscribed ==
  /\ g.act = "write"
  /\ Len(g.snaps) = 2
  /\ g.snaps[1].subs = <<1>>
  /\ g.snaps[1].calls = <<1>>
  /\ subs[g.snaps[1].dep] = <<1, 2>>

(***************************************************************************)
(* SpecRun: the owner of SpecDeep with batched and synchronous watchers of *)
(* x.nested.deepProp, a deep watcher of x, a watcher whose value is the    *)
(* object x.nested, and a callback that throws; with and without a console.*)
(***************************************************************************)
\* vm.$watch('x.nested.deepProp', function () { if (!vm.x.nested.deepProp) throw new Error() })
PPathThrow == Prog(<<OpGet(DeepPath)>>, <<OpAssert(DeepPath)>>, FALSE, FALSE, FALSE, TRUE)
\* vm.$watch(function () { vm.x.nested.deepProp; return vm.x.nested }, cb)
PNestedObj ==
  Prog(<<OpGet(DeepPath), OpGet(<<"x", "nested">>)>>, <<>>, FALSE, FALSE, FALSE, TRUE)
RunFixtures ==
  { <<PPathThrow, PPath>>, <<PPathThrow, PDeepX>>, <<PNestedObj, PPath>>,
    <<PPathSync, PPathThrow>> }

InitRun ==
  \E br \in BOOLEAN : \E ps \in RunFixtures :
    InitFrom(Construct([Boot(DeepHeap, TRUE) EXCEPT !.inBrowser = br], ps, 1))

NextRun ==
  \/ \E pv \in DeepWrites : ~waiting /\ Write(pv[1], pv[2])
  \/ TimerFire
  \/ FlushStep
  \/ FlushEnd

SpecRun == InitRun /\ [][NextRun]_vars

\* run() of watcher w in the current state: the state when its get() has returned, and
\* the state when run() has returned.
RunGot(w) == Get([Cur EXCEPT !.g = RunLog(Cur, w)], w)
RunDone(w) == Run(Cur, w)

\* The callback of w throws in state s.
CbThrows(s, w) == Exec(s, s.ws[w].cb, 1).exc

\* run() of an active watcher w, from get() returning in state a to run() returning in
\* state b: when the value differs from the cached one, is an object, or the watcher is
\* deep, the callback is invoked once with (value, cached value) and the value is
\* stored; otherwise nothing happens after get().  errors tells what becomes of a
\* callback that throws.
RunContract(a, b, w, errors) ==
  IF ~StrictEq(a.ret, ws[w].value) \/ IsObject(a.ret) \/ ws[w].deep
  THEN /\ b.g.cbs = Append(a.g.cbs, <<w, a.ret, ws[w].value>>)
       /\ b.ws[w].value = a.ret
       /\ b.g.evals = a.g.evals
       /\ errors
  ELSE b = a

AccessorHeap ==
  << PlainObj(<<"t">>, "t" :> Ref(2)),
     [PlainObj(<<"k", "c", "o">>, ("k" :> Num(1)) @@ ("c" :> Num(9)) @@ ("o" :> Ref(3)))
        EXCEPT !.acc["c"] = "get", !.acc["o"] = "get"],
     PlainObj(<<"z">>, "z" :> Num(1)),
     PlainObj(<<"z">>, "z" :> Num(2)) >>

PAccessor(k) == Prog(<<OpGet(<<"t", k>>)>>, <<>>, FALSE, FALSE, FALSE, TRUE)
PAccessorSync(k) == Prog(<<OpGet(<<"t", k>>)>>, <<>>, FALSE, TRUE, FALSE, TRUE)
AccessorFixtures ==
  { <<PAccessor("c"), PAccessor("k")>>, <<PAccessorSync("c"), PAccessor("o")>>,
    <<PAccessorSync("o"), PAccessorSync("k")>> }

InitAccessor ==
  \E ps \in AccessorFixtures : InitFrom(Construct(Boot(AccessorHeap, TRUE), ps, 1))

NextAccessor ==
  \/ \E k \in {"k", "c", "o"} : \E v \in {Num(1), Num(7), Num(9), NaN, Ref(3), Ref(4)} :
       Write(<<"t", k>>, v)
  \/ TimerFire
  \/ FlushStep
  \/ FlushEnd

SpecAccessor == InitAccessor /\ [][NextAccessor]_vars

\* The step is an assignment by a handler, of a value other than the one read, to an
\* instrumented property that was an accessor with a getter and no setter.
GetterOnlyWrite ==
  /\ pc = "idle" /\ pc' = "idle"
  /\ g'.act = "write"
  /\ g' # g
  /\ ~SameValue(g'.arg[2], g'.arg[3])
  /\ heap[Holder(g'.arg[1])].pdep[Key(g'.arg[1])] >= 0
  /\ heap[Holder(g'.arg[1])].acc[Key(g'.arg[1])] = "get"

\* C35 (getter-only accessor): assigning a different value to an instrumented property
\* that has a getter and no setter stores nothing, leaves the value read and the
\* nested observer (childOb) as they were, calls no notify() and updates no watcher.
C35_GetterOnly ==
  [][GetterOnlyWrite =>
       /\ heap' = heap
       /\ ReadFromRoot([Cur EXCEPT !.heap = heap'], g'.arg[1]).ret = g'.arg[3]
       /\ heap'[Holder(g'.arg[1])].child[Key(g'.arg[1])]
            = heap[Holder(g'.arg[1])].child[Key(g'.arg[1])]
       /\ g'.notes = <<>> /\ g'.updates = <<>> /\ g'.runs = <<>>
       /\ subs' = subs /\ ws' = ws
       /\ queue' = queue /\ has' = has /\ waiting' = waiting /\ timers' = timers]_vars

\* C35 happens: t.c = 7 was assigned while a watcher was subscribed to c; c reads 9.
C35_Witness ==
  /\ g.act = "write"
  /\ g.arg = << <<"t", "c">>, Num(7), Num(9) >>
  /\ heap[2].acc["c"] = "get" /\ heap[2].pdep["c"] >= 0
  /\ subs[heap[2].pdep["c"]] # <<>>
  /\ ReadFromRoot(Cur, <<"t", "c">>).ret = Num(9)
  /\ g.notes = <<>>

(***************************************************************************)
(* SpecTick: handlers give callbacks to vm.$nextTick and assign a, which a *)
(* batched watcher watches; with and without a console.                    *)
(***************************************************************************)
TickCallbacks == {"a", "b", "more", "throw"}

\* A handler calls vm.$nextTick(cb).
NextTickCall(cb) ==
  /\ pc = "idle"
  /\ Len(callbacks) < MaxCalls
  /\ Commit(NextTick([Cur EXCEPT !.g = [OpLog(Cur, "nextTick", <<cb>>)
                                        EXCEPT !.writes = IF waiting THEN g.writes ELSE 0]],
                     cb))

InitTick ==
  \E br \in BOOLEAN :
    InitFrom(Construct([Boot(DataHeap, TRUE) EXCEPT !.inBrowser = br], <<PBoth>>, 1))

NextTickQueue ==
  \/ \E cb \in TickCallbacks : NextTickCall(cb)
  \/ \E v \in {Num(0), Num(1)} : Len(callbacks) < MaxCalls /\ Write(<<"a">>, v)
  \/ TimerFire
  \/ FlushStep
  \/ FlushEnd

SpecTick == InitTick /\ [][NextTickQueue]_vars

IsPrefix(p, q) == Len(p) <= Len(q) /\ SubSeq(q, 1, Len(p)) = p

\* flushCallbacks is in progress, or has returned and no handler has run since.
InBatch == pc = "flush" \/ g.act \in {"flush", "flushed"} \/ g.tbatch # <<>>

\* The callbacks waiting are those given to nextTick since flushCallbacks last began,
\* in the order given, and a timer is armed, and pending is true, exactly while there
\* are any; the callbacks called by the timer callback in progress are the first of
\* those given before it began, in the order given, so that none given since has been
\* called.
TickOrder ==
  /\ callbacks = g.asked
  /\ timers \in {0, 1}
  /\ pending <=> timers = 1
  /\ pending <=> callbacks # <<>>
  /\ IsPrefix(g.ticked, g.tbatch)
  /\ pc = "flush" => g.ticked # <<>> /\ Last(g.ticked) = "flush"
  /\ copies = SubSeq(g.tbatch, Len(g.ticked) + 1, Len(g.tbatch)) \/ (pc = "idle" /\ copies = <<>>)

VueInit(s, watch, render) == MountComponent(Construct(s, watch, 1), render)

\* render () { this.cond; this.a; this.b }
PRenderAll ==
  Prog(<<OpGet(<<"cond">>), OpGet(<<"a">>), OpGet(<<"b">>)>>, <<>>, FALSE, FALSE, FALSE,
       FALSE)
\* watch: { fn () { return this.cond ? this.a : this.b } }
PCondUser == Prog(<<OpCond(<<"cond">>, <<"a">>, <<"b">>)>>, <<>>, FALSE, FALSE, FALSE, TRUE)

WatchOptions == { <<PCondUser>>, <<PBoth, PCondUser>>, <<PSyncA, PCondUser>> }

InitInit ==
  \E watch \in WatchOptions : InitFrom(VueInit(Boot(DataHeap, TRUE), watch, PRenderAll))

NextInit ==
  \/ \E k \in Range(DataKeys) : \E v \in {Num(0), Num(1)} : Write(<<k>>, v)
  \/ TimerFire
  \/ FlushStep
  \/ FlushEnd

SpecInit == InitInit /\ [][NextInit]_vars

\* The units made from the watch option that go through the queue.
WatchUnits == {w \in WIds : ws[w].user /\ ~ws[w].lazy /\ ~ws[w].sync}

\* The step calls the callback of unit w.
CallsBack(w) ==
  \E i \in DOMAIN g'.cbs : g'.cbs[i][1] = w /\ i > Len(g.cbs)

\* C37 (user units before render): the render unit is the last unit constructed, so
\* every user unit of the watch option has a smaller id; in the flush after a turn of
\* one write that called update() on a batched user unit and on the render unit, the
\* render unit does not run before the user unit has, and the user unit's callback is
\* not called once the render unit has run.
C37_UserFirst ==
  /\ [](/\ vm.watcher = Len(ws)
        /\ \A w \in WIds : (ws[w].user /\ ~ws[w].lazy) => w < vm.watcher
        /\ \A w \in WatchUnits :
             (/\ g.act \in {"flush", "flushed"} /\ g.bw = 1
              /\ w \in Range(g.batch) /\ vm.watcher \in Range(g.batch)
              /\ vm.watcher \in Range(g.runs)) =>
               /\ w \in Range(g.runs)
               /\ FirstRun(w) < FirstRun(vm.watcher))
  /\ [][\A w \in WatchUnits :
          (/\ pc = "flush" /\ g.bw = 1
           /\ w \in Range(g.batch) /\ vm.watcher \in Range(g.batch)
           /\ CallsBack(w)) => vm.watcher \notin Range(g.runs)]_vars

\* C37 happens: one write called update() on the render unit 2 and then on the user
\* unit 1; the flush ran unit 1, which called its callback, and then unit 2.
C37_Witness ==
  /\ g.act = "flushed"
  /\ g.bw = 1
  /\ vm.watcher = 2 /\ ws[1].user
  /\ g.batch = <<2, 1>>
  /\ g.runs = <<1, 2>>
  /\ Len(g.cbs) = 1 /\ g.cbs[1][1] = 1

(***************************************************************************)
(* SpecCache: computed properties over the data {cond, a, b}, one of them  *)
(* with a getter that assigns what it has read, and units that read them.  *)
(***************************************************************************)
\* computed: { k () { const v = this.a; this.a = 0; return v } }
PLazyClamp == Prog(<<OpGet(<<"a">>), OpSet(<<"a">>, Num(0))>>, <<>>, TRUE, FALSE, FALSE, FALSE)

CacheFixtures ==
  { <<PLazyClamp, PReader(1)>>, <<PLazyCond, PReaderSync(1)>>, <<PLazyClamp, PLazyOver(1)>>,
    <<PLazyB, PLazyClamp>> }

InitCache ==
  \E ps \in CacheFixtures : InitFrom(Construct(Boot(DataHeap, TRUE), ps, 1))

NextCache ==
  \/ \E w \in WIds : ReadComputed(w)
  \/ \E k \in Range(DataKeys) : \E v \in {Num(0), Num(1), Num(2)} : ~waiting /\ Write(<<k>>, v)
  \/ TimerFire
  \/ FlushStep
  \/ FlushEnd

SpecCache == InitCache /\ [][NextCache]_vars

\* What the getter of w returns when called in the current state.
GetterValue(w) == Exec(Cur, ws[w].getter, 1).ret

\* The getter of w, or that of a computed property it reads, assigns.
RECURSIVE Assigns(_)
Assigns(w) ==
  \E i \in DOMAIN ws[w].getter :
    \/ ws[w].getter[i].op \in {"set", "toggle"}
    \/ ws[w].getter[i].op = "computed" /\ Assigns(ws[w].getter[i].v.v)

\* C38 (computed cache consistency): every active lazy unit that is not dirty holds the
\* value its getter returns in the current state.
C38_Consistent ==
  \A w \in WIds : (ws[w].lazy /\ ws[w].active /\ ~ws[w].dirty) => ws[w].value = GetterValue(w)

\* The same for the units whose getter assigns nothing; it holds where no synchronous
\* unit reads a computed property defined over another (SpecCache), and fails where
\* one does (SpecComputed).
C38_ConsistentPure ==
  \A w \in WIds : (ws[w].lazy /\ ws[w].active /\ ~ws[w].dirty /\ ~Assigns(w)) =>
    ws[w].value = GetterValue(w)

\* C38 fails: the getter of unit 1 read a = 1 and assigned a = 0; the unit is subscribed
\* to a and was marked dirty by that write, evaluate() then cleared the flag, and the
\* unit is clean with the value 1 while its getter now returns 0.
C38_StaleClean ==
  /\ pc = "idle"
  /\ ws[1].lazy /\ ws[1].active /\ ~ws[1].dirty
  /\ 1 \in Range(subs[RootDep("a")])
  /\ 1 \in Range(g.updates)
  /\ ws[1].value = Num(1)
  /\ heap[RootId].val["a"] = Num(0)
  /\ GetterValue(1) = Num(0)

\* C38 fails without an assignment in a getter: a computed property over a computed
\* property is clean with a value its getter no longer returns, after a synchronous
\* unit read it in the middle of a notify() that had not yet reached the inner one.
C38_StaleChain ==
  /\ pc = "idle"
  /\ g.act = "write"
  /\ \E w \in WIds :
       /\ ws[w].lazy /\ ws[w].active /\ ~ws[w].dirty /\ ~Assigns(w)
       /\ ws[w].value # GetterValue(w)
       /\ <<w, TRUE>> \in Range(g.reads)

(***************************************************************************)
(* SpecLeak: a watcher whose function tears its own watcher down between   *)
(* two reads, computed properties, and handlers that write, unwatch,       *)
(* destroy the owner and read the computed properties.                     *)
(***************************************************************************)
\* vm.$watch(function () { this.a; last(this._watchers).teardown(); return this.b }, cb),
\* as watcher w
PSelfKill(w) ==
  Prog(<<OpGet(<<"a">>), OpUnwatch(w), OpGet(<<"b">>)>>, <<>>, FALSE, FALSE, FALSE, TRUE)

LeakFixtures ==
  { <<PBoth, PSelfKill(2)>>, <<PLazyCond, PReader(1)>>, <<PLazyB, PBoth>> }

InitLeak ==
  \E ps \in LeakFixtures : InitFrom(Construct(Boot(DataHeap, TRUE), ps, 1))

NextLeak ==
  \/ \E k \in Range(DataKeys) : \E v \in {Num(0), Num(1)} : ~waiting /\ Write(<<k>>, v)
  \/ \E w \in WIds : ~waiting /\ Unwatch(w)
  \/ ~waiting /\ Destroy
  \/ \E w \in WIds : ReadComputed(w)
  \/ TimerFire
  \/ FlushStep
  \/ FlushEnd

SpecLeak == InitLeak /\ [][NextLeak]_vars

\* C39 (no subscription after teardown): a unit whose teardown() has completed is in
\* the subs of no Dep.
C39_NoSubs ==
  \A w \in WIds : ~ws[w].active => \A d \in DOMAIN subs : w \notin Range(subs[d])

\* C39 fails: a lazy unit was torn down, a handler then read its computed property, and
\* evaluate() subscribed the inactive unit to the Deps its getter read.
C39_LazyResubscribed ==
  /\ g.act = "read"
  /\ \E w \in WIds :
       /\ g.arg = <<w>>
       /\ ws[w].lazy /\ ~ws[w].active
       /\ w \in Range(g.evals)
       /\ \E d \in DOMAIN subs : w \in Range(subs[d])

\* C39 fails: teardown() was called within the first get() of watcher 2; the Dep read
\* before it (subscribed by addDep, not yet in deps) and the Dep read after it have
\* the inactive watcher in their subs.
C39_SelfResubscribed ==
  /\ ~ws[2].active /\ ~ws[2].lazy
  /\ 2 \in Range(subs[RootDep("a")])
  /\ 2 \in Range(subs[RootDep("b")])

\* The positions of the queue that have not been run: all of them while no flush is in
\* progress, during a flush those after the last position run() was called for.
NotYetRun == IF ~flushing THEN queue ELSE SubSeq(queue, g.ran + 1, Len(queue))

\* C40 (pending-flag consistency): has holds exactly the units at a position of the
\* queue not yet run, and no unit is at two such positions.
C40_Flags ==
  /\ has = Range(NotYetRun)
  /\ \A w \in WIds : Count(NotYetRun, w) <= 1
  /\ flushing => g.ran \in {index, index + 1}

\* C40 happens: in a flush unit 2 has run and was queued again by its own callback; it
\* is flagged, and is in the queue at the position already run and at one not yet run.
C40_Witness ==
  /\ pc = "flush"
  /\ g.ran >= 1
  /\ has = {2}
  /\ queue[g.ran] = 2
  /\ Count(NotYetRun, 2) = 1
  /\ Count(queue, 2) >= 2

\* C40 happens where the flush was left by an exception: before() of unit 1 threw, the
\* unit has not run and is still flagged; or run() threw and the unit is not flagged.
C40_WitnessThrown ==
  /\ Thrown
  /\ \/ g.ran = index /\ queue[index + 1] \in has
     \/ g.ran = index + 1 /\ queue[index + 1] \notin has

====
